---- MODULE Spec2Model ----
(***************************************************************************)
(* A model of the gb-rs Game Boy emulator core: the PPU mode machine       *)
(* (src/src/ppu.rs), the timer (src/src/timer.rs), the interrupt           *)
(* controller (src/src/interrupts.rs), the bus (src/src/bus.rs) and the    *)
(* SM83 interpreter's step (src/src/cpu.rs), the driver loop               *)
(* (src/src/gb.rs) and the cartridge's bank registers (src/src/cart.rs).   *)
(*                                                                         *)
(* Arrays that the program initialises to zero (wram, hram, ...) are kept  *)
(* as functions over the indices that hold a non-zero byte.  The pixel     *)
(* contents of the frame buffer, VRAM tiles and the debug counter `cnt`    *)
(* are not part of the state modelled here.                                *)
(***************************************************************************)
EXTENDS Integers, Sequences, FiniteSets, TLC

VARIABLES
    cpu,      \* Cpu: registers, flags, ime, sleep
    mem,      \* StaticBus: rom, mapped_rom, eram, wram, mapped_wram, io, hram, vram, oam
    ppu,      \* PPU: mode machine and registers
    timer,    \* Timer
    intc,     \* InterruptController: int_f, int_en
    cart,     \* Cartridge: the MBC registers and the header of its ROM
    joypad,   \* Joypad: dpad_state, button_state, reg
    overflow_checks, \* the build: TRUE when integer overflow panics (debug), FALSE when it wraps
    panicked, \* TRUE once the process has panicked; it runs no further
    frame,    \* history: cycle and interrupt accounting of the current frame
    last,     \* history: the last Cpu::run_one step, with the machine it started from
    prev      \* history: the step before the last

vars == <<cpu, mem, ppu, timer, intc, cart, joypad, overflow_checks, panicked, frame, last, prev>>

-----------------------------------------------------------------------------
(* Bounds of the model *)

\* largest cycle count handed to PPU::run / run_cycles by a driver step
MaxCycles == 6
\* number of frames a bus-level run is followed for
MaxFrames == 1
\* number of Cpu::run_one steps an interrupt/halt program is followed for
MaxSteps == 22
\* number of Cpu::run_one steps a register/ALU program is followed for
MaxAluSteps == 4
\* number of Timer::tick calls the timer is followed for
MaxTicks == 1100
\* number of StaticBus::write calls a run of bus accesses is followed for
MaxBusOps == 2
\* number of bytes written to the serial data register FF01
MaxSerial == 7

-----------------------------------------------------------------------------
(* Fixed-width integer helpers *)

Bit(x, n) == (x \div (2 ^ n)) % 2

RECURSIVE BitAnd(_, _)
BitAnd(x, y) ==
    IF x = 0 \/ y = 0 THEN 0
    ELSE (x % 2) * (y % 2) + 2 * BitAnd(x \div 2, y \div 2)

RECURSIVE BitOr(_, _)
BitOr(x, y) ==
    IF x = 0 THEN y
    ELSE IF y = 0 THEN x
    ELSE (IF x % 2 = 1 \/ y % 2 = 1 THEN 1 ELSE 0) + 2 * BitOr(x \div 2, y \div 2)

\* x & !m on 8 bits
BitClear(x, m) == x - BitAnd(x, m)

U8(x) == x % 256
U16(x) == x % 65536

-----------------------------------------------------------------------------
(* PPU: src/src/ppu.rs *)

PPU_new ==
    [ mode |-> "OAMSCAN", ly |-> 0, r_cyc |-> 20,
      lcdc |-> 0, stat |-> 0, scy |-> 0, scx |-> 0, lyc |-> 0,
      bgp |-> 0, obp0 |-> 0, obp1 |-> 0, wy |-> 0, wx |-> 0,
      window_triggered |-> FALSE, window_counter |-> 0 ]

\* render_line counting the lines of a window that is off the screen too
Mut_render_line(p) ==
    IF Bit(p.lcdc, 5) = 1 /\ p.window_triggered
    THEN [p EXCEPT !.window_counter = @ + 1]
    ELSE p

\* PPU::render_line, as far as it changes the PPU's own registers: the window
\* line counter advances on the lines where the window is drawn.
render_line(p) ==
    IF Bit(p.lcdc, 5) = 1 /\ p.window_triggered
    THEN IF p.wx < 8 THEN [p EXCEPT !.window_counter = @ + 1]
         ELSE IF p.wx > 166 THEN p
         ELSE [p EXCEPT !.window_counter = @ + 1]
    ELSE p

\* The LYC check of PPU::run: STAT bit 6 set and LY = LYC.
LycInt(p) == Bit(p.stat, 6) = 1 /\ p.ly = p.lyc

\* PPU::run, mode OAMSCAN
RunOamScan(p, over) ==
    [ ppu |-> [p EXCEPT !.mode = "DRAW", !.r_cyc = 43 - over], int |-> "None" ]

\* PPU::run, mode DRAW
RunDraw(p, over) ==
    LET p1 == IF p.ly = p.wy THEN [p EXCEPT !.window_triggered = TRUE] ELSE p
        p2 == render_line(p1)
        p3 == [p2 EXCEPT !.mode = "HBLANK", !.r_cyc = 51 - over]
    IN  [ ppu |-> p3, int |-> IF Bit(p.stat, 3) = 1 THEN "LCD" ELSE "None" ]

\* RunHBlank entering VBLANK two lines late (LY = 145)
Mut_RunHBlank(p, over) ==
    LET p1 == [p EXCEPT !.ly = @ + 1]
    IN  IF p1.ly = 145
        THEN [ ppu |-> [p1 EXCEPT !.mode = "VBLANK", !.r_cyc = 114 - over],
               int |-> IF LycInt(p1) THEN "LCD" ELSE "VBLANK" ]
        ELSE [ ppu |-> [p1 EXCEPT !.mode = "OAMSCAN", !.r_cyc = 20 - over],
               int |-> IF LycInt(p1) THEN "LCD"
                       ELSE IF Bit(p1.stat, 5) = 1 THEN "LCD" ELSE "None" ]

\* PPU::run, mode HBLANK
RunHBlank(p, over) ==
    LET p1 == [p EXCEPT !.ly = @ + 1]
    IN  IF p1.ly = 143
        THEN [ ppu |-> [p1 EXCEPT !.mode = "VBLANK", !.r_cyc = 114 - over],
               int |-> IF LycInt(p1) THEN "LCD" ELSE "VBLANK" ]
        ELSE [ ppu |-> [p1 EXCEPT !.mode = "OAMSCAN", !.r_cyc = 20 - over],
               int |-> IF LycInt(p1) THEN "LCD"
                       ELSE IF Bit(p1.stat, 5) = 1 THEN "LCD" ELSE "None" ]

\* RunVBlank with VBLANK lines of 113 cycles
Mut_RunVBlank(p, over) ==
    IF p.ly = 153
    THEN [ ppu |-> [p EXCEPT !.mode = "OAMSCAN", !.r_cyc = 20 - over, !.ly = 0,
                             !.window_counter = 0, !.window_triggered = FALSE],
           int |-> IF Bit(p.stat, 5) = 1 THEN "LCD" ELSE "None" ]
    ELSE LET p1 == [p EXCEPT !.ly = @ + 1, !.r_cyc = 113 - over]
         IN  [ ppu |-> p1, int |-> IF LycInt(p1) THEN "LCD" ELSE "None" ]

\* PPU::run, mode VBLANK
RunVBlank(p, over) ==
    IF p.ly = 153
    THEN [ ppu |-> [p EXCEPT !.mode = "OAMSCAN", !.r_cyc = 20 - over, !.ly = 0,
                             !.window_counter = 0, !.window_triggered = FALSE],
           int |-> IF Bit(p.stat, 5) = 1 THEN "LCD" ELSE "None" ]
    ELSE LET p1 == [p EXCEPT !.ly = @ + 1, !.r_cyc = 114 - over]
         IN  [ ppu |-> p1, int |-> IF LycInt(p1) THEN "LCD" ELSE "None" ]

\* PPU::run staying in its mode when the call uses up exactly the remaining cycles
Mut_PPU_run(p, cycles) ==
    IF cycles <= p.r_cyc
    THEN [ ppu |-> [p EXCEPT !.r_cyc = @ - cycles], int |-> "None" ]
    ELSE LET over_cycles == cycles - p.r_cyc
         IN  CASE p.mode = "OAMSCAN" -> RunOamScan(p, over_cycles)
               [] p.mode = "DRAW"    -> RunDraw(p, over_cycles)
               [] p.mode = "HBLANK"  -> RunHBlank(p, over_cycles)
               [] p.mode = "VBLANK"  -> RunVBlank(p, over_cycles)

\* PPU::run(cycles) -> Option<IntSource>
PPU_run(p, cycles) ==
    IF cycles < p.r_cyc
    THEN [ ppu |-> [p EXCEPT !.r_cyc = @ - cycles], int |-> "None" ]
    ELSE LET over_cycles == cycles - p.r_cyc
         IN  CASE p.mode = "OAMSCAN" -> RunOamScan(p, over_cycles)
               [] p.mode = "DRAW"    -> RunDraw(p, over_cycles)
               [] p.mode = "HBLANK"  -> RunHBlank(p, over_cycles)
               [] p.mode = "VBLANK"  -> RunVBlank(p, over_cycles)

\* PPU::write, the registers FF40..FF4B (FF46 never reaches the PPU: the bus
\* performs the DMA itself)
PPU_write(p, addr, val) ==
    CASE addr = 65344 -> [p EXCEPT !.lcdc = val]
      [] addr = 65345 -> [p EXCEPT !.stat = val]
      [] addr = 65346 -> [p EXCEPT !.scy = val]
      [] addr = 65347 -> [p EXCEPT !.scx = val]
      [] addr = 65348 -> p
      [] addr = 65349 -> [p EXCEPT !.lyc = val]
      [] addr = 65351 -> [p EXCEPT !.bgp = val]
      [] addr = 65352 -> [p EXCEPT !.obp0 = val]
      [] addr = 65353 -> [p EXCEPT !.obp1 = val]
      [] addr = 65354 -> [p EXCEPT !.wy = val]
      [] addr = 65355 -> [p EXCEPT !.wx = val]

-----------------------------------------------------------------------------
(* Timer: src/src/timer.rs *)

Timer_new == [ tima |-> 0, tma |-> 0, tac |-> 0, system_counter |-> 0 ]

Timer_enabled(t) == Bit(t.tac, 2) = 1

\* the bit of the system counter whose falling edge clocks TIMA
num_shift(t) ==
    (CASE t.tac % 4 = 0 -> 8
       [] t.tac % 4 = 1 -> 2
       [] t.tac % 4 = 2 -> 4
       [] t.tac % 4 = 3 -> 6) - 1

\* Timer::tick clocking TIMA on the rising edge of the selected bit
Mut_Timer_tick(t) ==
    LET pre_add == t.system_counter
        post == U16(pre_add + 1)
        t1 == [t EXCEPT !.system_counter = post]
    IN  IF ~Timer_enabled(t) THEN [ timer |-> t1, int |-> FALSE ]
        ELSE LET pre_lsb == Bit(pre_add, num_shift(t)) = 1
                 post_lsb == Bit(post, num_shift(t)) = 1
             IN  IF ~pre_lsb /\ post_lsb
                 THEN LET tima1 == U8(t.tima + 1)
                      IN  IF tima1 = 0
                          THEN [ timer |-> [t1 EXCEPT !.tima = t.tma], int |-> TRUE ]
                          ELSE [ timer |-> [t1 EXCEPT !.tima = tima1], int |-> FALSE ]
                 ELSE [ timer |-> t1, int |-> FALSE ]

\* Timer::tick() -> bool
Timer_tick(t) ==
    LET pre_add == t.system_counter
        post == U16(pre_add + 1)
        t1 == [t EXCEPT !.system_counter = post]
    IN  IF ~Timer_enabled(t) THEN [ timer |-> t1, int |-> FALSE ]
        ELSE LET pre_lsb == Bit(pre_add, num_shift(t)) = 1
                 post_lsb == Bit(post, num_shift(t)) = 1
             IN  IF pre_lsb /\ ~post_lsb
                 THEN LET tima1 == U8(t.tima + 1)
                      IN  IF tima1 = 0
                          THEN [ timer |-> [t1 EXCEPT !.tima = t.tma], int |-> TRUE ]
                          ELSE [ timer |-> [t1 EXCEPT !.tima = tima1], int |-> FALSE ]
                 ELSE [ timer |-> t1, int |-> FALSE ]

\* the loop `for _ in 0..cycles { if timer.tick() { interrupt(TIMER) } }`
RECURSIVE TickN(_, _)
TickN(t, n) ==
    IF n = 0 THEN [ timer |-> t, int |-> FALSE ]
    ELSE LET one == Timer_tick(t)
             rest == TickN(one.timer, n - 1)
         IN  [ timer |-> rest.timer, int |-> one.int \/ rest.int ]

-----------------------------------------------------------------------------
(* Interrupt controller: src/src/interrupts.rs *)

IntSource(s) ==
    CASE s = "VBLANK" -> 1
      [] s = "LCD"    -> 2
      [] s = "TIMER"  -> 4
      [] s = "SERIAL" -> 8
      [] s = "JOYPAD" -> 16

Intc_new == [ int_en |-> 0, int_f |-> 0 ]

\* InterruptController::interrupt
interrupt(ic, s) == [ic EXCEPT !.int_f = BitOr(@, IntSource(s))]

\* interrupt_clear clearing every flag of IF
Mut_interrupt_clear(ic, s) == [ic EXCEPT !.int_f = 0]

\* InterruptController::interrupt_clear
interrupt_clear(ic, s) == [ic EXCEPT !.int_f = BitClear(@, IntSource(s))]

\* InterruptController::pending
pending(ic) == ic.int_f # 0

\* InterruptController::next, the loop over bit_idx (a u8: `<<= 1` drops the
\* bit shifted out); with bit_idx = 0 the loop would never end
RECURSIVE next_scan(_, _)
next_scan(masked, bit_idx) ==
    IF masked = 0 THEN "None"
    ELSE IF bit_idx = 0 THEN "Hang"
    ELSE IF BitAnd(masked, bit_idx) # 0
         THEN CASE bit_idx = 1  -> "VBLANK"
                [] bit_idx = 2  -> "LCD"
                [] bit_idx = 4  -> "TIMER"
                [] bit_idx = 8  -> "SERIAL"
                [] bit_idx = 16 -> "JOYPAD"
                [] OTHER        -> "Unreachable"
    ELSE next_scan(masked, (bit_idx * 2) % 256)

\* next looking at IF alone
Mut_Intc_next(ic) == next_scan(ic.int_f, 1)

\* InterruptController::next (Iterator)
Intc_next(ic) == next_scan(BitAnd(ic.int_f, ic.int_en), 1)

\* write storing the byte unmasked
Mut_Intc_write(ic, addr, val) ==
    IF addr = 65295 THEN [ic EXCEPT !.int_f = val]
    ELSE [ic EXCEPT !.int_en = val]

\* InterruptController::write
Intc_write(ic, addr, val) ==
    IF addr = 65295 THEN [ic EXCEPT !.int_f = val % 32]
    ELSE [ic EXCEPT !.int_en = val % 32]

-----------------------------------------------------------------------------
(* StaticBus::run_cycles: src/src/bus.rs *)

Mut_run_cycles(p, t, ic, cycles) ==
    LET pr == PPU_run(p, cycles)
        tr == TickN(t, cycles)
        ic2 == IF pr.int # "None" THEN interrupt(ic, pr.int) ELSE ic
    IN  [ ppu |-> pr.ppu, timer |-> tr.timer, intc |-> ic2, ppu_int |-> pr.int ]

\* the PPU runs first, then the timer ticks, then the PPU's interrupt is latched
run_cycles(p, t, ic, cycles) ==
    LET pr == PPU_run(p, cycles)
        tr == TickN(t, cycles)
        ic1 == IF tr.int THEN interrupt(ic, "TIMER") ELSE ic
        ic2 == IF pr.int # "None" THEN interrupt(ic1, pr.int) ELSE ic1
    IN  [ ppu |-> pr.ppu, timer |-> tr.timer, intc |-> ic2, ppu_int |-> pr.int ]

-----------------------------------------------------------------------------
(* StaticBus::read / StaticBus::write: src/src/bus.rs *)

\* The byte arrays of the bus and of the PPU (mapped_rom, vram, eram, wram,
\* mapped_wram, oam, io, hram) map disjoint address ranges; mem.ram holds them
\* keyed by bus address, with only the non-zero bytes stored.  mem.rom is the
\* loaded image of 0000-7FFF.
Get(f, i) == IF i \in DOMAIN f THEN f[i] ELSE 0

Put(f, i, v) ==
    IF v = 0 THEN IF i \in DOMAIN f THEN [x \in (DOMAIN f) \ {i} |-> f[x]] @@ <<>> ELSE f
    ELSE (i :> v) @@ f

\* the discriminant of PpuMode
PpuMode(m) ==
    CASE m = "HBLANK" -> 0 [] m = "VBLANK" -> 1 [] m = "OAMSCAN" -> 2 [] m = "DRAW" -> 3

\* PPU::get_stat
get_stat(p) ==
    LET base == BitClear(p.stat, 7)
    IN  BitOr(BitOr(base, PpuMode(p.mode)), IF p.ly = p.lyc THEN 6 ELSE 0)

\* PPU::read, the registers FF40..FF4B
PPU_read(p, addr) ==
    IF addr = 65344 THEN p.lcdc
    ELSE IF addr = 65345 THEN get_stat(p)
    ELSE IF addr = 65346 THEN p.scy
    ELSE IF addr = 65347 THEN p.scx
    ELSE IF addr = 65348 THEN p.ly
    ELSE IF addr = 65349 THEN p.lyc
    ELSE IF addr = 65350 THEN 255
    ELSE IF addr = 65351 THEN p.bgp
    ELSE IF addr = 65352 THEN p.obp0
    ELSE IF addr = 65353 THEN p.obp1
    ELSE IF addr = 65354 THEN p.wy
    ELSE p.wx

\* Timer::read
Timer_read(t, addr) ==
    IF addr = 65284 THEN t.system_counter \div 256
    ELSE IF addr = 65285 THEN t.tima
    ELSE IF addr = 65286 THEN t.tma
    ELSE t.tac

\* Timer::write
Timer_write(t, addr, val) ==
    IF addr = 65284 THEN [t EXCEPT !.system_counter = 0]
    ELSE IF addr = 65285 THEN [t EXCEPT !.tima = val]
    ELSE IF addr = 65286 THEN [t EXCEPT !.tma = val]
    ELSE [t EXCEPT !.tac = val]

\* InterruptController::read
Intc_read(ic, addr) == IF addr = 65295 THEN ic.int_f ELSE ic.int_en

\* StaticBus::read; s is the machine: [cpu, mem, ppu, timer, intc, ...]
Bus_read(s, addr) ==
    IF addr <= 16383 THEN Get(s.mem.rom, addr)
    ELSE IF addr <= 32767
         THEN IF addr \in DOMAIN s.mem.ram THEN s.mem.ram[addr] ELSE Get(s.mem.rom, addr)
    ELSE IF addr <= 57343 THEN Get(s.mem.ram, addr)
    ELSE IF addr <= 65023 THEN 0
    ELSE IF addr <= 65183 THEN Get(s.mem.ram, addr)
    ELSE IF addr <= 65279 THEN 0
    ELSE IF addr = 65280 THEN 255
    ELSE IF addr <= 65283 THEN Get(s.mem.ram, addr)
    ELSE IF addr <= 65287 THEN Timer_read(s.timer, addr)
    ELSE IF addr <= 65294 THEN 0
    ELSE IF addr = 65295 THEN Intc_read(s.intc, addr)
    ELSE IF addr <= 65343 THEN Get(s.mem.ram, addr)
    ELSE IF addr <= 65355 THEN PPU_read(s.ppu, addr)
    ELSE IF addr <= 65534 THEN Get(s.mem.ram, addr)
    ELSE Intc_read(s.intc, addr)

\* a store into one of the byte arrays
Store(s, addr, val) == [s EXCEPT !.mem.ram = IF addr \in 16384..32767
                                             THEN (addr :> val) @@ @
                                             ELSE Put(@, addr, val)]

\* the FF01 branch of StaticBus::write: the last six bytes written are kept
PushPassed(buf, val) ==
    LET b == Append(buf, val)
    IN  IF Len(b) > 6 THEN Tail(b) ELSE b

\* the iterations lo..hi of the loop of the FF46 branch of StaticBus::write, in
\* order: iteration i is `self.write(dst, self.read(src))` with dst = 0xFE00 + i
\* and src = val * 0x100 + i, the write being the OAM arm of write; a panic
\* would end the loop where it stood
RECURSIVE dma_loop(_, _, _, _)
dma_loop(s, src, lo, hi) ==
    IF lo = hi THEN Store(s, 65024 + lo, Bus_read(s, src + lo))
    ELSE LET t == dma_loop(s, src, lo, (lo + hi) \div 2)
         IN  IF t.panic THEN t ELSE dma_loop(t, src, (lo + hi) \div 2 + 1, hi)

Mut_Dma(s, val) == dma_loop(s, val * 256 + 1, 1, 159)

\* the FF46 branch of StaticBus::write: 160 bytes from val * 0x100 are copied to OAM
Dma(s, val) == dma_loop(s, val * 256, 0, 159)

\* StaticBus::write; a write to echo RAM (E000-FDFF) is an unreachable!() panic
Bus_write(s0, addr, val) ==
    LET s == [s0 EXCEPT !.writes = Append(@, <<addr, val>>)]
    IN  IF s0.panic THEN s0
        ELSE IF addr <= 16383 THEN s
        ELSE IF addr <= 57343 THEN Store(s, addr, val)
        ELSE IF addr <= 65023 THEN [s EXCEPT !.panic = TRUE]
        ELSE IF addr <= 65183 THEN Store(s, addr, val)
        ELSE IF addr <= 65279 THEN s
        ELSE IF addr <= 65283
             THEN LET s1 == Store(s, addr, val)
                  IN  IF addr = 65281
                      THEN [s1 EXCEPT !.mem.passed_buf = PushPassed(@, val)]
                      ELSE s1
        ELSE IF addr <= 65287 THEN [s EXCEPT !.timer = Timer_write(@, addr, val)]
        ELSE IF addr <= 65294 THEN s
        ELSE IF addr = 65295 THEN [s EXCEPT !.intc = Intc_write(@, addr, val)]
        ELSE IF addr <= 65343 THEN Store(s, addr, val)
        ELSE IF addr <= 65355
             THEN IF addr = 65350 THEN Dma(s, val)
                  ELSE [s EXCEPT !.ppu = PPU_write(@, addr, val)]
        ELSE IF addr <= 65534 THEN Store(s, addr, val)
        ELSE [s EXCEPT !.intc = Intc_write(@, addr, val)]

-----------------------------------------------------------------------------
(* Cpu: src/src/cpu.rs.  The operators below take and return the machine    *)
(* s = [cpu, mem, ppu, timer, intc, checks, writes, panic]: the CPU with    *)
(* the bus it owns, the build's overflow checking, the bus writes made so   *)
(* far in the step, and whether the step has panicked.                      *)

Machine(c, m, p, t, ic, checks) ==
    [ cpu |-> c, mem |-> m, ppu |-> p, timer |-> t, intc |-> ic,
      checks |-> checks, writes |-> <<>>, panic |-> FALSE ]

does_bit3_overflow(a, b) == (15 - (a % 16)) < (b % 16)

\* Cpu::get_f
get_f(c) ==
    (IF c.z_f THEN 128 ELSE 0) + (IF c.n_f THEN 64 ELSE 0)
    + (IF c.h_f THEN 32 ELSE 0) + (IF c.c_f THEN 16 ELSE 0)

make_u16(h, l) == h * 256 + l

\* `x + 1` on a u16 written with the plain operator: it panics in a build with
\* overflow checks and wraps in one without
PlainInc(s, x) ==
    IF x = 65535 THEN [ v |-> 0, panic |-> s.checks ] ELSE [ v |-> x + 1, panic |-> FALSE ]

\* `x - 1` on a u16 written with the plain operator
PlainDec(s, x) ==
    IF x = 0 THEN [ v |-> 65535, panic |-> s.checks ] ELSE [ v |-> x - 1, panic |-> FALSE ]

\* Cpu::rreg8
rreg8(s, r) ==
    CASE r = 0 -> s.cpu.b [] r = 1 -> s.cpu.c [] r = 2 -> s.cpu.d [] r = 3 -> s.cpu.e
      [] r = 4 -> s.cpu.h [] r = 5 -> s.cpu.l
      [] r = 6 -> Bus_read(s, make_u16(s.cpu.h, s.cpu.l))
      [] r = 7 -> s.cpu.a

\* Cpu::wreg8
wreg8(s, r, val) ==
    CASE r = 0 -> [s EXCEPT !.cpu.b = val] [] r = 1 -> [s EXCEPT !.cpu.c = val]
      [] r = 2 -> [s EXCEPT !.cpu.d = val] [] r = 3 -> [s EXCEPT !.cpu.e = val]
      [] r = 4 -> [s EXCEPT !.cpu.h = val] [] r = 5 -> [s EXCEPT !.cpu.l = val]
      [] r = 6 -> Bus_write(s, make_u16(s.cpu.h, s.cpu.l), val)
      [] r = 7 -> [s EXCEPT !.cpu.a = val]

\* Cpu::wreg16
wreg16(s, r, val) ==
    CASE r = 0 -> [s EXCEPT !.cpu.b = val \div 256, !.cpu.c = val % 256]
      [] r = 1 -> [s EXCEPT !.cpu.d = val \div 256, !.cpu.e = val % 256]
      [] r = 2 -> [s EXCEPT !.cpu.h = val \div 256, !.cpu.l = val % 256]
      [] r = 3 -> [s EXCEPT !.cpu.sp = val]

\* Cpu::rreg16
rreg16(s, r) ==
    CASE r = 0 -> make_u16(s.cpu.b, s.cpu.c)
      [] r = 1 -> make_u16(s.cpu.d, s.cpu.e)
      [] r = 2 -> make_u16(s.cpu.h, s.cpu.l)
      [] r = 3 -> s.cpu.sp

\* Cpu::rr16mem: (BC), (DE), (HL+) with a plain `hl + 1`, (HL-) with wrapping_sub
rr16mem(s, r) ==
    LET hl == make_u16(s.cpu.h, s.cpu.l)
    IN  CASE r = 0 -> [ s |-> s, val |-> Bus_read(s, make_u16(s.cpu.b, s.cpu.c)) ]
          [] r = 1 -> [ s |-> s, val |-> Bus_read(s, make_u16(s.cpu.d, s.cpu.e)) ]
          [] r = 2 -> LET n == PlainInc(s, hl)
                      IN  [ s |-> [s EXCEPT !.cpu.h = n.v \div 256, !.cpu.l = n.v % 256,
                                            !.panic = @ \/ n.panic],
                            val |-> Bus_read(s, hl) ]
          [] r = 3 -> LET n == U16(hl + 65535)
                      IN  [ s |-> [s EXCEPT !.cpu.h = n \div 256, !.cpu.l = n % 256],
                            val |-> Bus_read(s, hl) ]

Mut_wr16mem(s, r, val) ==
    LET hl == make_u16(s.cpu.h, s.cpu.l)
    IN  CASE r = 0 -> Bus_write(s, make_u16(s.cpu.b, s.cpu.c), val)
          [] r = 1 -> Bus_write(s, make_u16(s.cpu.d, s.cpu.e), val)
          [] r = 2 -> LET n == U16(hl + 2)
                      IN  [Bus_write(s, hl, val) EXCEPT !.cpu.h = n \div 256, !.cpu.l = n % 256]
          [] r = 3 -> LET n == U16(hl + 65535)
                      IN  [Bus_write(s, hl, val) EXCEPT !.cpu.h = n \div 256, !.cpu.l = n % 256]

\* Cpu::wr16mem: (BC), (DE), (HL+) with wrapping_add, (HL-) with wrapping_sub
wr16mem(s, r, val) ==
    LET hl == make_u16(s.cpu.h, s.cpu.l)
    IN  CASE r = 0 -> Bus_write(s, make_u16(s.cpu.b, s.cpu.c), val)
          [] r = 1 -> Bus_write(s, make_u16(s.cpu.d, s.cpu.e), val)
          [] r = 2 -> LET n == U16(hl + 1)
                      IN  [Bus_write(s, hl, val) EXCEPT !.cpu.h = n \div 256, !.cpu.l = n % 256]
          [] r = 3 -> LET n == U16(hl + 65535)
                      IN  [Bus_write(s, hl, val) EXCEPT !.cpu.h = n \div 256, !.cpu.l = n % 256]

\* one `self.sp = self.sp - 1; self.bus.write(self.sp, byte)` of Cpu::push_stack
push_byte(s, byte) ==
    LET d == PlainDec(s, s.cpu.sp)
    IN  Bus_write([s EXCEPT !.cpu.sp = d.v, !.panic = @ \/ d.panic], d.v, byte)

\* Cpu::push_stack: the high byte, then the low byte
push_stack(s, val) == push_byte(push_byte(s, val \div 256), val % 256)

\* one `self.bus.read(self.sp); self.sp = self.sp + 1` of Cpu::pop_stack
pop_byte(s) ==
    LET i == PlainInc(s, s.cpu.sp)
    IN  [ s |-> [s EXCEPT !.cpu.sp = i.v, !.panic = @ \/ i.panic],
          val |-> Bus_read(s, s.cpu.sp) ]

\* Cpu::pop_stack: the low byte, then the high byte
pop_stack(s) ==
    LET lo == pop_byte(s)
        hi == pop_byte(lo.s)
    IN  [ s |-> hi.s, val |-> hi.val * 256 + lo.val ]

\* Cpu::check_cond
check_cond(c, cond) ==
    CASE cond = 0 -> ~c.z_f [] cond = 1 -> c.z_f [] cond = 2 -> ~c.c_f [] cond = 3 -> c.c_f

\* Cpu::load_byte
load_byte(s) ==
    LET n == PlainInc(s, s.cpu.pc)
    IN  [ s |-> [s EXCEPT !.cpu.pc = n.v, !.panic = @ \/ n.panic],
          val |-> Bus_read(s, s.cpu.pc) ]

\* Cpu::load_word
load_word(s) ==
    LET next == load_byte(s)
        next_next == load_byte(next.s)
    IN  [ s |-> next_next.s, val |-> next.val + 256 * next_next.val ]

-----------------------------------------------------------------------------
(* Instruction decoding: src/src/cpu.rs, block0_decode .. next_instr.       *)
(* An Instr is [opcode, op1, op2]; an operand is [k, v] with k the variant  *)
(* of Operands and v its payload.                                            *)

Operand(k, v) == [ k |-> k, v |-> v ]

None == Operand("None", 0)

Instr(s, opcode, op1, op2) ==
    [ s |-> s, instr |-> [ opcode |-> opcode, op1 |-> op1, op2 |-> op2 ], fetched |-> -1 ]

\* the unreachable!() arm of a decoder: the process panics and no Instr exists
Illegal(s) ==
    [ s |-> [s EXCEPT !.panic = TRUE],
      instr |-> [ opcode |-> "unreachable", op1 |-> None, op2 |-> None ], fetched |-> -1 ]

\* Cpu::block0_decode
block0_decode(s, opcode) ==
    LET lower_four == opcode % 16
        lower_three == opcode % 8
        is_jr_cond == BitAnd(opcode, 231) = 32
        bit54 == (opcode \div 16) % 4
        bit543 == (opcode \div 8) % 8
        w == load_word(s)
        b == load_byte(s)
    IN  IF opcode = 0 THEN Instr(s, "NOP", None, None)
        ELSE IF lower_four = 1 THEN Instr(w.s, "LD", Operand("R16", bit54), Operand("Imm16", w.val))
        ELSE IF lower_four = 2 THEN Instr(s, "LD", Operand("R16Mem", bit54), Operand("A", 0))
        ELSE IF lower_four = 10 THEN Instr(s, "LD", Operand("A", 0), Operand("R16Mem", bit54))
        ELSE IF lower_four = 3 THEN Instr(s, "INC", Operand("R16", bit54), None)
        ELSE IF lower_four = 11 THEN Instr(s, "DEC", Operand("R16", bit54), None)
        ELSE IF lower_four = 9 THEN Instr(s, "ADD", Operand("HL", 0), Operand("R16", bit54))
        ELSE IF opcode = 8 THEN Instr(w.s, "LD", Operand("Imm16", w.val), Operand("SP", 0))
        ELSE IF lower_three = 4 THEN Instr(s, "INC", Operand("R8", bit543), None)
        ELSE IF lower_three = 5 THEN Instr(s, "DEC", Operand("R8", bit543), None)
        ELSE IF lower_three = 6 THEN Instr(b.s, "LD", Operand("R8", bit543), Operand("Imm8", b.val))
        ELSE IF opcode = 7 THEN Instr(s, "RLCA", None, None)
        ELSE IF opcode = 15 THEN Instr(s, "RRCA", None, None)
        ELSE IF opcode = 23 THEN Instr(s, "RLA", None, None)
        ELSE IF opcode = 31 THEN Instr(s, "RRA", None, None)
        ELSE IF opcode = 39 THEN Instr(s, "DAA", None, None)
        ELSE IF opcode = 47 THEN Instr(s, "CPL", None, None)
        ELSE IF opcode = 55 THEN Instr(s, "SCF", None, None)
        ELSE IF opcode = 63 THEN Instr(s, "CCF", None, None)
        ELSE IF opcode = 24 THEN Instr(b.s, "JR", Operand("Imm8", b.val), None)
        ELSE IF is_jr_cond THEN Instr(b.s, "JR", Operand("Cond", (opcode \div 8) % 4), Operand("Imm8", b.val))
        ELSE IF opcode = 16 THEN Instr(s, "STOP", None, None)
        ELSE Illegal(s)

\* Cpu::block1_decode
block1_decode(s, opcode) ==
    IF opcode = 118 THEN Instr(s, "HALT", None, None)
    ELSE IF (opcode \div 64) # 1 THEN Illegal(s)
    ELSE Instr(s, "LD", Operand("R8", (opcode \div 8) % 8), Operand("R8", opcode % 8))

\* Cpu::block2_decode
block2_decode(s, opcode) ==
    LET code == opcode - (opcode % 8)
        this_opcode == CASE code = 128 -> "ADD" [] code = 136 -> "ADC"
                         [] code = 144 -> "SUB" [] code = 152 -> "SBC"
                         [] code = 160 -> "AND" [] code = 168 -> "XOR"
                         [] code = 176 -> "OR"  [] code = 184 -> "CP"
    IN  Instr(s, this_opcode, Operand("A", 0), Operand("R8", opcode % 8))

\* Cpu::cb_prefix_decode
cb_prefix_decode(s, opcode) ==
    LET masked == opcode \div 8
        lower_three == opcode % 8
        bit76 == opcode \div 64
        bit543 == (opcode \div 8) % 8
    IN  IF masked <= 7
        THEN Instr(s, CASE masked = 0 -> "RLC" [] masked = 1 -> "RRC" [] masked = 2 -> "RL"
                        [] masked = 3 -> "RR" [] masked = 4 -> "SLA" [] masked = 5 -> "SRA"
                        [] masked = 6 -> "SWAP" [] masked = 7 -> "SRL",
                   Operand("R8", lower_three), None)
        ELSE Instr(s, CASE bit76 = 1 -> "BIT" [] bit76 = 2 -> "RES" [] bit76 = 3 -> "SET",
                   Operand("B3", bit543), Operand("R8", lower_three))

\* Cpu::block3_decode.  The test `lower_three == 0x4` takes E4, EC, F4 and FC
\* with C4, CC, D4 and DC; D3, DB, DD, E3, EB, ED and FD reach unreachable!().
block3_decode(s, opcode) ==
    LET lower_three == opcode % 8
        lower_four == opcode % 16
        r16stk == (opcode \div 16) % 4
        bit43 == (opcode \div 8) % 4
        bit543 == (opcode \div 8) % 8
        b == load_byte(s)
        w == load_word(s)
    IN  IF lower_three = 6
        THEN Instr(b.s, CASE opcode = 198 -> "ADD" [] opcode = 206 -> "ADC"
                          [] opcode = 214 -> "SUB" [] opcode = 222 -> "SBC"
                          [] opcode = 230 -> "AND" [] opcode = 238 -> "XOR"
                          [] opcode = 246 -> "OR"  [] opcode = 254 -> "CP",
                   Operand("A", 0), Operand("Imm8", b.val))
        ELSE IF opcode = 226 THEN Instr(s, "LDH", Operand("R8", 1), Operand("A", 0))
        ELSE IF opcode = 224 THEN Instr(b.s, "LDH", Operand("Imm8", b.val), Operand("A", 0))
        ELSE IF opcode = 234 THEN Instr(w.s, "LD", Operand("Imm16", w.val), Operand("A", 0))
        ELSE IF opcode = 242 THEN Instr(s, "LDH", Operand("A", 0), Operand("R8", 1))
        ELSE IF opcode = 240 THEN Instr(b.s, "LDH", Operand("A", 0), Operand("Imm8", b.val))
        ELSE IF opcode = 250 THEN Instr(w.s, "LD", Operand("A", 0), Operand("Imm16", w.val))
        ELSE IF opcode = 232 THEN Instr(b.s, "ADD", Operand("SP", 0), Operand("Imm8", b.val))
        ELSE IF opcode = 248 THEN Instr(b.s, "LD", Operand("HL", 0), Operand("SpImm8", b.val))
        ELSE IF opcode = 249 THEN Instr(s, "LD", Operand("SP", 0), Operand("HL", 0))
        ELSE IF opcode = 243 THEN Instr(s, "DI", None, None)
        ELSE IF opcode = 251 THEN Instr(s, "EI", None, None)
        ELSE IF opcode = 203 THEN cb_prefix_decode(b.s, b.val)
        ELSE IF lower_four = 1 THEN Instr(s, "POP", Operand("R16Stk", r16stk), None)
        ELSE IF lower_four = 5 THEN Instr(s, "PUSH", Operand("R16Stk", r16stk), None)
        ELSE IF lower_three = 0 THEN Instr(s, "RET", Operand("Cond", bit43), None)
        ELSE IF opcode = 201 THEN Instr(s, "RET", None, None)
        ELSE IF opcode = 217 THEN Instr(s, "RETI", None, None)
        ELSE IF lower_three = 2 THEN Instr(w.s, "JP", Operand("Cond", bit43), Operand("Imm16", w.val))
        ELSE IF opcode = 195 THEN Instr(w.s, "JP", Operand("Imm16", w.val), None)
        ELSE IF opcode = 233 THEN Instr(s, "JP", Operand("HL", 0), None)
        ELSE IF lower_three = 4 THEN Instr(w.s, "CALL", Operand("Cond", bit43), Operand("Imm16", w.val))
        ELSE IF opcode = 205 THEN Instr(w.s, "CALL", Operand("Imm16", w.val), None)
        ELSE IF lower_three = 7 THEN Instr(s, "RST", Operand("Tgt3", bit543), None)
        ELSE Illegal(s)

\* Cpu::next_instr; fetched is the opcode byte read at PC
next_instr(s) ==
    LET opcode == Bus_read(s, s.cpu.pc)
        n == PlainInc(s, s.cpu.pc)
        s1 == [s EXCEPT !.cpu.pc = n.v, !.panic = @ \/ n.panic]
    IN  [ IF opcode <= 63 THEN block0_decode(s1, opcode)
          ELSE IF opcode <= 127 THEN block1_decode(s1, opcode)
          ELSE IF opcode <= 191 THEN block2_decode(s1, opcode)
          ELSE block3_decode(s1, opcode)
        EXCEPT !.fetched = opcode ]

-----------------------------------------------------------------------------
(* Instruction execution: src/src/cpu.rs, execute_instr, for the             *)
(* instructions the programs below are made of.  Each arm returns the       *)
(* machine after the instruction and the machine cycles it reports.         *)

Ret(s, cycles) == [ s |-> s, cycles |-> cycles ]

Mut_daa(c) ==
    LET adj60 == c.c_f
        a1 == IF c.n_f THEN (IF c.c_f THEN U8(c.a + 160) ELSE c.a)
              ELSE (IF adj60 THEN U8(c.a + 96) ELSE c.a)
        a2 == IF c.n_f THEN (IF c.h_f THEN U8(a1 + 250) ELSE a1)
              ELSE (IF c.h_f \/ (a1 % 16) > 9 THEN U8(a1 + 6) ELSE a1)
    IN  [c EXCEPT !.a = a2, !.c_f = IF c.n_f THEN c.c_f ELSE adj60,
                  !.z_f = (a2 = 0), !.h_f = FALSE]

\* the DAA arm of execute_instr, on the registers
daa(c) ==
    LET adj60 == c.c_f \/ c.a > 153
        a1 == IF c.n_f THEN (IF c.c_f THEN U8(c.a + 160) ELSE c.a)
              ELSE (IF adj60 THEN U8(c.a + 96) ELSE c.a)
        a2 == IF c.n_f THEN (IF c.h_f THEN U8(a1 + 250) ELSE a1)
              ELSE (IF c.h_f \/ (a1 % 16) > 9 THEN U8(a1 + 6) ELSE a1)
    IN  [c EXCEPT !.a = a2, !.c_f = IF c.n_f THEN c.c_f ELSE adj60,
                  !.z_f = (a2 = 0), !.h_f = FALSE]

\* the ADD A, imm8 arm of execute_instr, on the registers
add_a_imm8(c, i) ==
    [c EXCEPT !.h_f = does_bit3_overflow(i, c.a), !.c_f = (i + c.a > 255),
              !.z_f = (U8(i + c.a) = 0), !.n_f = FALSE, !.a = U8(i + c.a)]

\* the value the POP arm of execute_instr stores into the pair r16stk
pop_regs(c, r16stk, val) ==
    CASE r16stk = 0 -> [c EXCEPT !.b = val \div 256, !.c = val % 256]
      [] r16stk = 1 -> [c EXCEPT !.d = val \div 256, !.e = val % 256]
      [] r16stk = 2 -> [c EXCEPT !.h = val \div 256, !.l = val % 256]
      [] r16stk = 3 -> [c EXCEPT !.a = val \div 256,
                                 !.z_f = (Bit(val, 7) = 1), !.n_f = (Bit(val, 6) = 1),
                                 !.h_f = (Bit(val, 5) = 1), !.c_f = (Bit(val, 4) = 1)]

Mut_push_val(c, r16stk) ==
    CASE r16stk = 0 -> make_u16(c.b, c.c)
      [] r16stk = 1 -> make_u16(c.d, c.e)
      [] r16stk = 2 -> make_u16(c.h, c.l)
      [] r16stk = 3 -> c.a * 256 + (IF c.z_f THEN 128 ELSE 0) + (IF c.n_f THEN 64 ELSE 0)
                       + (IF c.h_f THEN 32 ELSE 0) + (IF c.c_f THEN 16 ELSE 0) + 15

\* the value the PUSH arm of execute_instr pushes for the pair r16stk
push_val(c, r16stk) ==
    CASE r16stk = 0 -> make_u16(c.b, c.c)
      [] r16stk = 1 -> make_u16(c.d, c.e)
      [] r16stk = 2 -> make_u16(c.h, c.l)
      [] r16stk = 3 -> c.a * 256 + (IF c.z_f THEN 128 ELSE 0) + (IF c.n_f THEN 64 ELSE 0)
                       + (IF c.h_f THEN 32 ELSE 0) + (IF c.c_f THEN 16 ELSE 0)

does_bit3_borrow(a, b) == (b % 16) > (a % 16)

BitXor(x, y) == BitOr(x, y) - BitAnd(x, y)

\* the INC r8 arm of execute_instr; before is what rreg8 returned
inc_r8(s, reg, before) ==
    wreg8([s EXCEPT !.cpu.h_f = does_bit3_overflow(before, 1), !.cpu.n_f = FALSE,
                    !.cpu.z_f = (U8(before + 1) = 0)], reg, U8(before + 1))

\* the DEC r8 arm of execute_instr
dec_r8(s, reg, before) ==
    [wreg8(s, reg, U8(before + 255)) EXCEPT !.cpu.z_f = (U8(before + 255) = 0),
                                             !.cpu.h_f = does_bit3_borrow(before, 1),
                                             !.cpu.n_f = TRUE]

\* the pc a JR arm of execute_instr computes: pc + (i as i8), as u16
jr_target(pc, i) == U16(pc + 65536 + (IF i >= 128 THEN i - 256 ELSE i))

\* the ADC A, r8 arm of execute_instr, on the registers
adc_a(c, v) ==
    LET added == U8(v + c.a)
        overflow == v + c.a > 255
        h0 == does_bit3_overflow(c.a, v)
    IN  IF c.c_f
        THEN [c EXCEPT !.n_f = FALSE, !.h_f = h0 \/ does_bit3_overflow(added, 1),
                       !.c_f = overflow \/ added = 255, !.a = U8(added + 1),
                       !.z_f = (U8(added + 1) = 0)]
        ELSE [c EXCEPT !.n_f = FALSE, !.h_f = h0, !.c_f = overflow, !.a = added,
                       !.z_f = (added = 0)]

\* the SBC A, r8 arm of execute_instr, on the registers
sbc_a(c, v) ==
    LET carry == IF c.c_f THEN 1 ELSE 0
        a1 == U8(c.a + 256 - v)
        a2 == U8(a1 + 256 - carry)
    IN  [c EXCEPT !.c_f = (v + carry > c.a),
                  !.h_f = does_bit3_borrow(c.a, v) \/ does_bit3_borrow(a1, carry),
                  !.n_f = TRUE, !.a = a2, !.z_f = (a2 = 0)]

\* the arms of execute_instr for ADD, ADC, SUB, SBC, AND, XOR, OR and CP with
\* the operands A and r8, on the registers; v is what rreg8 returned
alu_a_r8(c, opcode, v) ==
    CASE opcode = "ADD" -> [c EXCEPT !.h_f = does_bit3_overflow(v, c.a), !.c_f = (c.a + v > 255),
                                     !.z_f = (U8(c.a + v) = 0), !.n_f = FALSE, !.a = U8(c.a + v)]
      [] opcode = "ADC" -> adc_a(c, v)
      [] opcode = "SUB" -> [c EXCEPT !.h_f = does_bit3_borrow(c.a, v), !.c_f = (v > c.a),
                                     !.n_f = TRUE, !.z_f = (U8(c.a + 256 - v) = 0),
                                     !.a = U8(c.a + 256 - v)]
      [] opcode = "SBC" -> sbc_a(c, v)
      [] opcode = "AND" -> [c EXCEPT !.a = BitAnd(c.a, v), !.z_f = (BitAnd(c.a, v) = 0),
                                     !.n_f = FALSE, !.h_f = TRUE, !.c_f = FALSE]
      [] opcode = "XOR" -> [c EXCEPT !.a = BitXor(c.a, v), !.z_f = (BitXor(c.a, v) = 0),
                                     !.n_f = FALSE, !.h_f = FALSE, !.c_f = FALSE]
      [] opcode = "OR"  -> [c EXCEPT !.a = BitOr(c.a, v), !.z_f = (BitOr(c.a, v) = 0),
                                     !.n_f = FALSE, !.h_f = FALSE, !.c_f = FALSE]
      [] opcode = "CP"  -> [c EXCEPT !.h_f = does_bit3_borrow(c.a, v), !.c_f = (v > c.a),
                                     !.n_f = TRUE, !.z_f = (U8(c.a + 256 - v) = 0)]

AluOps == {"ADD", "ADC", "SUB", "SBC", "AND", "XOR", "OR", "CP"}

RotOps == {"RLC", "RRC", "RL", "RR", "SLA", "SRA", "SWAP", "SRL"}

BitOps == {"BIT", "RES", "SET"}

\* the value a 0xCB arm of execute_instr computes from the operand v (Cpu::rlc,
\* rl, rrc, rr and the arms SLA .. SET); BIT computes none and leaves v
cb_new(c, opcode, b3, v) ==
    CASE opcode = "RLC"  -> U8(v * 2) + v \div 128
      [] opcode = "RRC"  -> v \div 2 + (v % 2) * 128
      [] opcode = "RL"   -> U8(v * 2) + (IF c.c_f THEN 1 ELSE 0)
      [] opcode = "RR"   -> v \div 2 + (IF c.c_f THEN 128 ELSE 0)
      [] opcode = "SLA"  -> U8(v * 2)
      [] opcode = "SRA"  -> v \div 2 + (v \div 128) * 128
      [] opcode = "SWAP" -> (v % 16) * 16 + v \div 16
      [] opcode = "SRL"  -> v \div 2
      [] opcode = "BIT"  -> v
      [] opcode = "RES"  -> v - Bit(v, b3) * (2 ^ b3)
      [] opcode = "SET"  -> v + (1 - Bit(v, b3)) * (2 ^ b3)

\* the flags a 0xCB arm of execute_instr leaves
cb_flags(c, opcode, b3, v, new) ==
    CASE opcode \in {"RLC", "RL", "SLA"} ->
            [c EXCEPT !.c_f = (v >= 128), !.z_f = (new = 0), !.n_f = FALSE, !.h_f = FALSE]
      [] opcode \in {"RRC", "RR", "SRA", "SRL"} ->
            [c EXCEPT !.c_f = (v % 2 = 1), !.z_f = (new = 0), !.n_f = FALSE, !.h_f = FALSE]
      [] opcode = "SWAP" ->
            [c EXCEPT !.c_f = FALSE, !.z_f = (new = 0), !.n_f = FALSE, !.h_f = FALSE]
      [] opcode = "BIT" -> [c EXCEPT !.z_f = (Bit(v, b3) = 0), !.n_f = FALSE, !.h_f = TRUE]
      [] opcode \in {"RES", "SET"} -> c

\* a 0xCB arm of execute_instr on the machine: read r, write the new value
\* back (BIT writes nothing), set the flags
cb_exec(s, opcode, r, b3, v) ==
    [(IF opcode = "BIT" THEN s ELSE wreg8(s, r, cb_new(s.cpu, opcode, b3, v)))
        EXCEPT !.cpu = cb_flags(@, opcode, b3, v, cb_new(s.cpu, opcode, b3, v))]

Mut_cb_cycles(opcode, r) == IF r = 6 THEN 3 ELSE 2

\* the cycles a 0xCB arm of execute_instr returns
cb_cycles(opcode, r) == IF r = 6 THEN (IF opcode = "BIT" THEN 3 ELSE 4) ELSE 2

\* Cpu::execute_instr
execute_instr(s, i) ==
    LET sig == <<i.opcode, i.op1.k, i.op2.k>>
        v1 == i.op1.v
        v2 == i.op2.v
        popped == pop_stack(s)
        called == [push_stack(s, s.cpu.pc) EXCEPT !.cpu.pc = v2]
    IN  CASE sig = <<"NOP", "None", "None">> -> Ret(s, 1)
          [] sig = <<"LD", "R16", "Imm16">> -> Ret(wreg16(s, v1, v2), 3)
          [] sig = <<"LD", "R16Mem", "A">> -> Ret(wr16mem(s, v1, s.cpu.a), 2)
          [] sig = <<"LD", "A", "R16Mem">> ->
                LET r == rr16mem(s, v2) IN Ret([r.s EXCEPT !.cpu.a = r.val], 2)
          [] sig = <<"LD", "R8", "Imm8">> -> Ret(wreg8(s, v1, v2), IF v1 = 6 THEN 3 ELSE 2)
          [] sig = <<"LD", "R8", "R8">> ->
                Ret(wreg8(s, v1, rreg8(s, v2)), IF v1 = 6 \/ v2 = 6 THEN 2 ELSE 1)
          [] sig = <<"DAA", "None", "None">> -> Ret([s EXCEPT !.cpu = daa(@)], 1)
          [] sig = <<"STOP", "None", "None">> -> Ret([s EXCEPT !.panic = TRUE], 0)
          [] sig = <<"HALT", "None", "None">> -> Ret([s EXCEPT !.cpu.sleep = TRUE], 1)
          [] sig = <<"ADD", "A", "Imm8">> -> Ret([s EXCEPT !.cpu = add_a_imm8(@, v2)], 2)
          [] sig = <<"RET", "Cond", "None">> ->
                IF ~check_cond(s.cpu, v1) THEN Ret(s, 2)
                ELSE Ret([popped.s EXCEPT !.cpu.pc = popped.val], 5)
          [] sig = <<"RET", "None", "None">> ->
                Ret([popped.s EXCEPT !.cpu.pc = popped.val], 4)
          [] sig = <<"RETI", "None", "None">> ->
                Ret([popped.s EXCEPT !.cpu.ime = TRUE, !.cpu.pc = popped.val], 4)
          [] sig = <<"JP", "Cond", "Imm16">> ->
                IF check_cond(s.cpu, v1) THEN Ret([s EXCEPT !.cpu.pc = v2], 4) ELSE Ret(s, 3)
          [] sig = <<"JP", "Imm16", "None">> -> Ret([s EXCEPT !.cpu.pc = v1], 4)
          [] sig = <<"CALL", "Cond", "Imm16">> ->
                IF ~check_cond(s.cpu, v1) THEN Ret(s, 3) ELSE Ret(called, 6)
          [] sig = <<"CALL", "Imm16", "None">> ->
                Ret([push_stack(s, s.cpu.pc) EXCEPT !.cpu.pc = v1], 6)
          [] sig = <<"RST", "Tgt3", "None">> ->
                Ret([push_stack(s, s.cpu.pc) EXCEPT !.cpu.pc = v1 * 8], 4)
          [] sig = <<"POP", "R16Stk", "None">> ->
                Ret([popped.s EXCEPT !.cpu = pop_regs(@, v1, popped.val)], 3)
          [] sig = <<"PUSH", "R16Stk", "None">> ->
                Ret(push_stack(s, push_val(s.cpu, v1)), 4)
          [] sig = <<"LDH", "Imm8", "A">> -> Ret(Bus_write(s, v1 + 65280, s.cpu.a), 3)
          [] sig = <<"LD", "Imm16", "A">> -> Ret(Bus_write(s, v1, s.cpu.a), 4)
          [] sig = <<"LDH", "A", "Imm8">> ->
                Ret([s EXCEPT !.cpu.a = Bus_read(s, v2 + 65280)], 3)
          [] sig = <<"LD", "A", "Imm16">> -> Ret([s EXCEPT !.cpu.a = Bus_read(s, v2)], 4)
          [] sig = <<"DI", "None", "None">> -> Ret([s EXCEPT !.cpu.ime = FALSE], 1)
          [] sig = <<"EI", "None", "None">> -> Ret([s EXCEPT !.cpu.ime = TRUE], 1)
          [] sig = <<"INC", "R8", "None">> ->
                Ret(inc_r8(s, v1, rreg8(s, v1)), IF v1 = 6 THEN 3 ELSE 1)
          [] sig = <<"DEC", "R8", "None">> ->
                Ret(dec_r8(s, v1, rreg8(s, v1)), IF v1 = 6 THEN 3 ELSE 1)
          [] sig = <<"JR", "Imm8", "None">> ->
                Ret([s EXCEPT !.cpu.pc = jr_target(@, v1)], 3)
          [] sig = <<"JR", "Cond", "Imm8">> ->
                IF check_cond(s.cpu, v1) THEN Ret([s EXCEPT !.cpu.pc = jr_target(@, v2)], 3)
                ELSE Ret(s, 2)
          [] i.opcode \in AluOps /\ i.op1.k = "A" /\ i.op2.k = "R8" ->
                Ret([s EXCEPT !.cpu = alu_a_r8(@, i.opcode, rreg8(s, v2))],
                    IF v2 = 6 THEN 2 ELSE 1)
          [] i.opcode \in RotOps ->
                Ret(cb_exec(s, i.opcode, v1, 0, rreg8(s, v1)), cb_cycles(i.opcode, v1))
          [] i.opcode \in BitOps ->
                Ret(cb_exec(s, i.opcode, v2, v1, rreg8(s, v2)), cb_cycles(i.opcode, v2))

-----------------------------------------------------------------------------
(* Frame accounting (history) *)

Frame_new == [ cyc |-> 0, len |-> 0, done |-> 0, vblanks |-> 0, last_vblanks |-> 0,
               entered_vblank |-> FALSE, ppu_int |-> "None" ]

\* the accounting after the PPU went from p to q in a call of `cycles` cycles that
\* returned `int`; a frame starts when LY returns from 153 to 0
FrameStep(f, p, q, cycles, int) ==
    LET wrapped == p.ly = 153 /\ q.ly = 0
        raised == IF int = "VBLANK" THEN 1 ELSE 0
    IN  [ cyc |-> IF wrapped THEN cycles - p.r_cyc ELSE f.cyc + cycles,
          len |-> IF wrapped THEN f.cyc + p.r_cyc ELSE f.len,
          done |-> IF wrapped /\ f.done < MaxFrames THEN f.done + 1 ELSE f.done,
          vblanks |-> IF wrapped THEN 0 ELSE f.vblanks + raised,
          last_vblanks |-> IF wrapped THEN f.vblanks + raised ELSE f.last_vblanks,
          entered_vblank |-> p.mode # "VBLANK" /\ q.mode = "VBLANK",
          ppu_int |-> int ]

-----------------------------------------------------------------------------
(* Construction: Cpu::new (src/src/cpu.rs), StaticBus::new (src/src/bus.rs) *)

Cpu_new ==
    [ a |-> 1, b |-> 0, c |-> 19, d |-> 0, e |-> 216, h |-> 1, l |-> 77,
      sp |-> 65534, pc |-> 256,
      z_f |-> TRUE, n_f |-> FALSE, h_f |-> TRUE, c_f |-> TRUE,
      ime |-> FALSE, sleep |-> FALSE ]

\* every array of the bus is zero-filled; rom and mapped_rom are then read from the image
Mem_new == [ rom |-> <<>>, ram |-> <<>>, passed_buf |-> <<>> ]

\* Joypad::new: nothing pressed (the inputs are active low), no group selected
Joypad_new == [ dpad_state |-> 15, button_state |-> 15, reg |-> 48 ]

NoInstr == [ opcode |-> "None", op1 |-> None, op2 |-> None ]

\* StaticBus holds the two 16 KiB halves of the image itself and owns no Cartridge
NoCart == [ mbc |-> "None" ]

\* the step record before any step was taken
Last_new ==
    [ steps |-> 0, kind |-> "init", fetched |-> -1, instr |-> NoInstr, cycles |-> 0,
      writes |-> <<>>, mid_intc |-> Intc_new,
      pre |-> Machine(Cpu_new, Mem_new, PPU_new, Timer_new, Intc_new, TRUE) ]

-----------------------------------------------------------------------------
(* PPU driven directly: PPU::run with every cycle count, PPU::write *)

\* LCDC values the PPU is run under: all layers off, the post-boot value 0x91,
\* window and sprites on (0xE3), every bit set
LcdcValues == {0, 145, 227, 255}

InitPpu ==
    /\ cpu = Cpu_new
    /\ joypad = Joypad_new
    /\ mem = Mem_new
    /\ ppu \in { [PPU_new EXCEPT !.lcdc = v] : v \in LcdcValues }
    /\ timer = Timer_new
    /\ intc = Intc_new
    /\ overflow_checks = TRUE
    /\ frame = Frame_new
    /\ panicked = FALSE
    /\ last = Last_new
    /\ prev = Last_new
    /\ cart = NoCart

PpuRunStep(cycles) ==
    LET r == PPU_run(ppu, cycles)
    IN  /\ ppu' = r.ppu
        /\ frame' = FrameStep(frame, ppu, r.ppu, cycles, r.int)
        /\ UNCHANGED <<joypad, cpu, mem, timer, intc, cart, overflow_checks, panicked, last, prev>>

\* a write to LY (FF44), which PPU::write ignores
PpuWriteLy(val) ==
    /\ ppu' = PPU_write(ppu, 65348, val)
    /\ UNCHANGED <<joypad, cpu, mem, timer, intc, cart, overflow_checks, panicked, frame, last, prev>>

NextPpu ==
    \/ \E cycles \in 1..MaxCycles : PpuRunStep(cycles)
    \/ \E val \in {0, 144, 255} : PpuWriteLy(val)

SpecPpu == InitPpu /\ [][NextPpu]_vars

\* C1: between two consecutive starts of a frame (LY returning from 153 to 0) the
\* PPU consumes exactly 17556 machine cycles, for every LCDC value and every
\* sequence of run(cycles) calls with cycles in 1..MaxCycles.
C1_FrameIs17556 == frame.done > 0 => frame.len = 17556

C1_Witness == frame.done > 0 /\ frame.len = 17556 /\ ppu.lcdc = 255 /\ frame.cyc > 0

\* C2: LY stays in 0..153, LY in 144..153 implies VBLANK mode, and DRAW mode
\* implies LY < 144.
C2_LyRange ==
    /\ ppu.ly \in 0..153
    /\ (ppu.ly \in 144..153 => ppu.mode = "VBLANK")
    /\ (ppu.mode = "DRAW" => ppu.ly < 144)

C2_Witness == ppu.ly = 153 /\ ppu.mode = "VBLANK" /\ frame.done > 0

-----------------------------------------------------------------------------
(* The bus driven directly: StaticBus::run_cycles with every cycle count *)

\* STAT values: no source enabled, each of the bits 3, 4, 5, 6 alone, all four
StatValues == {0, 8, 16, 32, 64, 120}
\* LYC values: the first line, the line on which VBLANK is entered, a VBLANK line
LycValues == {0, 143, 144}

InitBus ==
    /\ cpu = Cpu_new
    /\ joypad = Joypad_new
    /\ mem = Mem_new
    /\ ppu \in { [PPU_new EXCEPT !.lcdc = 145, !.stat = s, !.lyc = y] :
                    s \in StatValues, y \in LycValues }
    /\ timer = Timer_new
    /\ intc = Intc_new
    /\ overflow_checks = TRUE
    /\ frame = Frame_new
    /\ panicked = FALSE
    /\ last = Last_new
    /\ prev = Last_new
    /\ cart = NoCart

BusRunCycles(cycles) ==
    LET r == run_cycles(ppu, timer, intc, cycles)
    IN  /\ frame.done < MaxFrames
        /\ ppu' = r.ppu
        /\ timer' = r.timer
        /\ intc' = r.intc
        /\ frame' = FrameStep(frame, ppu, r.ppu, cycles, r.ppu_int)
        /\ UNCHANGED <<joypad, cpu, mem, cart, overflow_checks, panicked, last, prev>>

NextBus == \E cycles \in 1..MaxCycles : BusRunCycles(cycles)

SpecBus == InitBus /\ [][NextBus]_vars

\* C3: in every frame, for every STAT and LYC, the PPU raises the VBLANK source
\* exactly once, at the transition into mode 1 (VBLANK), and the bus latches it
\* into IF bit 0.
C3_VblankOncePerFrame ==
    /\ (frame.done > 0 => frame.last_vblanks = 1)
    /\ (frame.entered_vblank => frame.ppu_int = "VBLANK" /\ Bit(intc.int_f, 0) = 1)
    /\ (frame.ppu_int = "VBLANK" => frame.entered_vblank)

-----------------------------------------------------------------------------
(* The step: src/src/cpu.rs, Cpu::run_one and Cpu::handle_interrupt *)

Mut_handle_interrupt(s, int_source) ==
    LET s1 == [s EXCEPT !.cpu.ime = FALSE]
        s2 == push_stack(s1, s1.cpu.pc)
        vector == CASE int_source = "VBLANK" -> 64 [] int_source = "LCD" -> 72
                    [] int_source = "TIMER" -> 80 [] int_source = "SERIAL" -> 88
                    [] int_source = "JOYPAD" -> 96
    IN  Ret([s2 EXCEPT !.cpu.pc = vector, !.intc.int_f = 0], 5)

\* Cpu::handle_interrupt
handle_interrupt(s, int_source) ==
    LET s1 == [s EXCEPT !.cpu.ime = FALSE]
        s2 == push_stack(s1, s1.cpu.pc)
        vector == CASE int_source = "VBLANK" -> 64 [] int_source = "LCD" -> 72
                    [] int_source = "TIMER" -> 80 [] int_source = "SERIAL" -> 88
                    [] int_source = "JOYPAD" -> 96
    IN  Ret([s2 EXCEPT !.cpu.pc = vector, !.intc = interrupt_clear(@, int_source)], 5)

\* self.bus.run_cycles(cycles) on the machine
Bus_run_cycles(s, cycles) ==
    LET r == run_cycles(s.ppu, s.timer, s.intc, cycles)
    IN  [s EXCEPT !.ppu = r.ppu, !.timer = r.timer, !.intc = r.intc]

\* what a step did: the machine when the CPU part r was done (mid), the machine
\* when the bus had been run for the cycles of r (s), the cycles reported, the
\* opcode byte fetched (-1 when none was) and the decoded instruction
Step(kind, r, fetched, instr) ==
    [ kind |-> kind, mid |-> r.s, s |-> Bus_run_cycles(r.s, r.cycles), cycles |-> r.cycles,
      fetched |-> fetched, instr |-> instr ]

Mut_halted_idle(s) == Step("halt_idle", Ret([s EXCEPT !.cpu.sleep = FALSE], 1), -1, NoInstr)

\* the branch of Cpu::run_one taken while halted with no enabled interrupt pending
halted_idle(s) == Step("halt_idle", Ret(s, 1), -1, NoInstr)

\* the last three statements of Cpu::run_one, n being what next_instr returned
execute_next(n) ==
    Step("exec", IF n.s.panic THEN Ret(n.s, 0) ELSE execute_instr(n.s, n.instr),
         n.fetched, n.instr)

\* Cpu::run_one
run_one(s) ==
    LET int == Intc_next(s.intc)
    IN  IF s.cpu.sleep
        THEN IF int # "None"
             THEN Step("halt_wake", handle_interrupt([s EXCEPT !.cpu.sleep = FALSE], int),
                       -1, NoInstr)
             ELSE halted_idle(s)
        ELSE IF s.cpu.ime /\ int # "None"
             THEN Step("dispatch", handle_interrupt(s, int), -1, NoInstr)
        ELSE execute_next(next_instr(s))

-----------------------------------------------------------------------------
(* The CPU running a ROM image from the state Cpu::new and StaticBus::new    *)
(* leave: Cpu::new's write of 0x90 to FF44 is ignored by PPU::write.         *)

\* the image holding `code` at the entry point 0x100 and zero (NOP) elsewhere
Image(code) == [ a \in 256..(255 + Len(code)) |-> code[a - 255] ]

\* the machine the step starts from
M == Machine(cpu, mem, ppu, timer, intc, overflow_checks)

\* one call of Cpu::run_one; a panic ends the process where it stood
CpuRunOne(limit) ==
    /\ ~panicked
    /\ last.steps < limit
    /\ \E r \in {run_one(M)} :
          /\ IF r.s.panic
             THEN /\ panicked' = TRUE
                  /\ UNCHANGED <<joypad, cpu, mem, ppu, timer, intc>>
             ELSE /\ panicked' = FALSE
                  /\ cpu' = r.s.cpu
                  /\ mem' = r.s.mem
                  /\ ppu' = r.s.ppu
                  /\ timer' = r.s.timer
                  /\ intc' = r.s.intc
          /\ last' = [ steps |-> last.steps + 1, kind |-> r.kind, fetched |-> r.fetched,
                       instr |-> r.instr, cycles |-> r.cycles, writes |-> r.s.writes,
                       mid_intc |-> r.mid.intc, pre |-> M ]
          /\ prev' = last
          /\ UNCHANGED <<joypad, cart, overflow_checks, frame>>

InitRom(programs) ==
    /\ cpu = Cpu_new
    /\ joypad = Joypad_new
    /\ mem \in { [Mem_new EXCEPT !.rom = Image(code)] : code \in programs }
    /\ ppu = PPU_new
    /\ timer = Timer_new
    /\ intc = Intc_new
    /\ overflow_checks \in BOOLEAN
    /\ panicked = FALSE
    /\ frame = Frame_new
    /\ last = Last_new
    /\ prev = Last_new
    /\ cart = NoCart

\* the opcodes the SM83 does not define
InvalidOpcodes == {211, 219, 221, 227, 228, 235, 236, 237, 244, 252, 253}

\* IE values: nothing enabled, everything, and masks that leave LCD, TIMER,
\* SERIAL, JOYPAD as the first enabled source
IeValues == {0, 31, 30, 28, 24, 16}
\* IF values: nothing requested, everything, JOYPAD alone, VBLANK+TIMER, LCD+SERIAL
IfValues == {0, 31, 16, 5, 10}
\* the opcode after the prelude: NOP, HALT, CALL NZ, CALL, and the undefined ones
TestOpcodes == {0, 118, 196, 205} \cup InvalidOpcodes

\* LD A,ie; LDH (FF),A; LD A,if; LDH (0F),A; EI or NOP; the opcode under test
\* followed by the bytes 00 02 (the address 0x0200 where it takes an operand)
IntProgram(ie, if, en, op) == <<62, ie, 224, 255, 62, if, 224, 15, en, op, 0, 2>>

\* IE = TIMER; TIMA = FF; TAC = 6 (enabled, bit 3 of the counter); DIV reset;
\* EI or NOP; HALT: TIMA overflows sixteen cycles after the reset, in the halt
TimerProgram(en) == <<62, 4, 224, 255, 62, 255, 224, 5, 62, 6, 224, 7, 224, 4, en, 118>>

CpuPrograms ==
    { IntProgram(ie, if, en, op) :
        ie \in IeValues, if \in IfValues, en \in {251, 0}, op \in TestOpcodes }
    \cup { TimerProgram(en) : en \in {251, 0} }

InitCpu == InitRom(CpuPrograms)

NextCpu == CpuRunOne(MaxSteps)

SpecCpu == InitCpu /\ [][NextCpu]_vars

\* IF & IE of an interrupt controller, and the number of its lowest set bit
Requested(ic) == BitAnd(ic.int_f, ic.int_en)

LowestBit(x) == CHOOSE b \in 0..4 : Bit(x, b) = 1 /\ \A k \in 0..(b - 1) : Bit(x, k) = 0

\* C4: a step that starts not halted, with IME = 1 and IF & IE # 0, fetches no
\* instruction; it clears IME, pushes the PC it started with (high byte at SP-1,
\* low byte at SP-2), clears in IF exactly the bit of the lowest-numbered source
\* set in IF & IE, sets PC to 0x40 + 8 * that bit number, leaves every other
\* register alone and reports 5 machine cycles.
C4_InterruptDispatch ==
    LET p == last.pre
        b == LowestBit(Requested(p.intc))
    IN  (last.steps > 0 /\ ~p.cpu.sleep /\ p.cpu.ime /\ Requested(p.intc) # 0) =>
            /\ ~panicked
            /\ last.fetched = -1 /\ last.instr = NoInstr
            /\ ~cpu.ime
            /\ last.writes = << <<U16(p.cpu.sp + 65535), p.cpu.pc \div 256>>,
                                <<U16(p.cpu.sp + 65534), p.cpu.pc % 256>> >>
            /\ cpu.sp = U16(p.cpu.sp + 65534)
            /\ last.mid_intc = [p.intc EXCEPT !.int_f = @ - 2 ^ b]
            /\ cpu.pc = 64 + 8 * b
            /\ [cpu EXCEPT !.pc = p.cpu.pc, !.sp = p.cpu.sp, !.ime = TRUE] = p.cpu
            /\ last.cycles = 5

C4_Witness ==
    /\ last.steps > 0 /\ ~last.pre.cpu.sleep /\ last.pre.cpu.ime
    /\ last.pre.intc.int_f = 31 /\ last.pre.intc.int_en = 28
    /\ cpu.pc = 80 /\ last.mid_intc.int_f = 27 /\ last.cycles = 5

\* C5: a step that starts halted with IME = 0 and IF & IE # 0 leaves the halted
\* state without servicing the interrupt: nothing is pushed, SP is unchanged, PC
\* is not an interrupt vector and the CPU clears no bit of IF.
C5_HaltWakeNoVector ==
    LET p == last.pre
    IN  (last.steps > 0 /\ p.cpu.sleep /\ ~p.cpu.ime /\ Requested(p.intc) # 0) =>
            /\ ~cpu.sleep
            /\ last.writes = <<>>
            /\ cpu.sp = p.cpu.sp
            /\ cpu.pc \notin {64, 72, 80, 88, 96}
            /\ last.mid_intc.int_f = p.intc.int_f

\* C6: a step that starts halted with IF & IE = 0 reports one machine cycle,
\* advances the bus by that one cycle, changes nothing of the CPU and so stays
\* halted; a step that leaves the halted state started with IF & IE # 0.
C6_HaltIdle ==
    LET p == last.pre
    IN  /\ (last.steps > 0 /\ p.cpu.sleep /\ Requested(p.intc) = 0) =>
              /\ ~panicked
              /\ last.cycles = 1
              /\ timer.system_counter = U16(p.timer.system_counter + 1)
              /\ last.fetched = -1 /\ last.writes = <<>>
              /\ cpu = p.cpu /\ cpu.sleep
        /\ (last.steps > 0 /\ p.cpu.sleep /\ ~cpu.sleep) => Requested(p.intc) # 0

C6_Witness ==
    /\ last.steps > 0 /\ last.pre.cpu.sleep /\ cpu.sleep
    /\ Requested(last.pre.intc) = 0 /\ last.pre.intc.int_f = 10 /\ last.pre.intc.int_en = 16
    /\ last.cycles = 1

\* C7: a step that fetches one of the opcodes D3, DB, DD, E3, E4, EB, EC, ED, F4,
\* FC, FD panics in the decoder: no instruction is decoded from it and executed.
C7_InvalidOpcodesFault ==
    (last.steps > 0 /\ last.fetched \in InvalidOpcodes) =>
        panicked /\ last.instr.opcode = "unreachable"

-----------------------------------------------------------------------------
(* Register, stack and ALU programs run from the same construction state *)

\* high bytes of the word put on the stack; every low byte is taken
HighBytes == {0, 1, 90, 128, 255}

\* LD BC,hi:lo; PUSH BC; POP AF; PUSH AF
PopPushProgram(hi, lo) == <<1, lo, hi, 197, 241, 245>>

\* HL values: ROM bank 0 and its end, banked ROM, VRAM, external RAM, the program
\* itself, WRAM and the bank boundary, the last WRAM byte, echo RAM and its end,
\* OAM and its end, the prohibited area, the joypad, DIV, IF, LCDC, LY, DMA, the
\* last I/O byte, HRAM and its end, IE
HlValues == {0, 16383, 16384, 32768, 40960, 256, 49152, 53247, 57343, 57344, 65023,
             65024, 65183, 65184, 65280, 65284, 65295, 65344, 65348, 65350, 65407,
             65408, 65534, 65535}

AValues == {0, 1, 90, 255}

\* LD HL,hl; LD A,a; LD (HL+),A; LD A,(HL-)
LdHlProgram(hl, a) == <<33, hl % 256, hl \div 256, 62, a, 34, 58>>

\* the bytes that are two decimal digits
Bcd == { 16 * hi + lo : hi \in 0..9, lo \in 0..9 }

\* LD A,a; ADD A,imm; DAA
DaaProgram(a, imm) == <<62, a, 198, imm, 39>>

AluPrograms ==
    { PopPushProgram(hi, lo) : hi \in HighBytes, lo \in 0..255 }
    \cup { LdHlProgram(hl, a) : hl \in HlValues, a \in AValues }
    \cup { DaaProgram(a, imm) : a \in Bcd, imm \in Bcd }

InitAlu == InitRom(AluPrograms)

NextAlu == CpuRunOne(MaxAluSteps)

SpecAlu == InitAlu /\ [][NextAlu]_vars

IsInstr(step, opcode, k1, v1, k2) ==
    /\ step.kind = "exec"
    /\ step.instr.opcode = opcode
    /\ step.instr.op1 = Operand(k1, v1)
    /\ step.instr.op2.k = k2

\* C8: when POP AF is followed by PUSH AF, the PUSH writes, at the two addresses
\* the POP read, the popped 16-bit value with its low four bits cleared, whatever
\* that value was; SP is back where it was.
C8_PopPushAf ==
    LET sp0 == prev.pre.cpu.sp
        lo == Bus_read(prev.pre, sp0)
        hi == Bus_read(prev.pre, U16(sp0 + 1))
    IN  (IsInstr(prev, "POP", "R16Stk", 3, "None") /\ IsInstr(last, "PUSH", "R16Stk", 3, "None")) =>
            /\ ~panicked
            /\ last.writes = << <<U16(sp0 + 1), hi>>, <<sp0, lo - (lo % 16)>> >>
            /\ cpu.sp = sp0

C8_Witness ==
    /\ IsInstr(prev, "POP", "R16Stk", 3, "None") /\ IsInstr(last, "PUSH", "R16Stk", 3, "None")
    /\ Bus_read(prev.pre, prev.pre.cpu.sp) = 255
    /\ last.writes = << <<65533, 90>>, <<65532, 240>> >>

HLof(c) == make_u16(c.h, c.l)

DecOf(x) == 10 * (x \div 16) + (x % 16)

BcdOf(n) == 16 * (n \div 10) + (n % 10)

\* C10: for valid BCD a and imm, after ADD A,imm followed by DAA, A is the BCD
\* encoding of (a + imm) mod 100, C is set exactly when the decimal sum is at
\* least 100, Z is set exactly when A is 0, and H is clear.
C10_DaaAfterAdd ==
    LET a == prev.pre.cpu.a
        imm == prev.instr.op2.v
        sum == DecOf(a) + DecOf(imm)
    IN  (IsInstr(prev, "ADD", "A", 0, "Imm8") /\ IsInstr(last, "DAA", "None", 0, "None")
         /\ a \in Bcd /\ imm \in Bcd) =>
            /\ ~panicked
            /\ cpu.a = BcdOf(sum % 100)
            /\ cpu.c_f = (sum >= 100)
            /\ cpu.z_f = (cpu.a = 0)
            /\ ~cpu.h_f

C10_Witness ==
    /\ IsInstr(prev, "ADD", "A", 0, "Imm8") /\ IsInstr(last, "DAA", "None", 0, "None")
    /\ prev.pre.cpu.a = 153 /\ prev.instr.op2.v = 153
    /\ cpu.a = 152 /\ cpu.c_f /\ ~cpu.z_f /\ ~cpu.h_f

-----------------------------------------------------------------------------
(* Cartridge: src/src/cart.rs.  The bank registers (writes to 0000-7FFF)   *)
(* and the ROM reads (0000-7FFF) first, cartridge RAM (A000-BFFF) after     *)
(* them.  data.ram() is a vector of ram_size bytes (VecCart::from_slice);   *)
(* cart.ram holds its non-zero bytes keyed by offset.                       *)

\* the ROM image: hdr holds the header bytes the emulator reads (cartridge type
\* at 0x147, ROM size code at 0x148, RAM size code at 0x149) and every other
\* byte of the image holds the number of its 16 KiB bank
RomAt(hdr, off) ==
    IF off = 327 THEN hdr.cart_type
    ELSE IF off = 328 THEN hdr.rom_code
    ELSE IF off = 329 THEN hdr.ram_code
    ELSE (off \div 16384) % 256

\* get_cart_header: rom_size, ram_size and num_rom_banks from the header bytes
get_cart_header(hdr) ==
    [ cart_type |-> RomAt(hdr, 327),
      rom_size |-> 32768 * 2 ^ RomAt(hdr, 328),
      ram_size |-> CASE RomAt(hdr, 329) = 0 -> 0
                     [] RomAt(hdr, 329) = 2 -> 8192
                     [] RomAt(hdr, 329) = 3 -> 32768
                     [] RomAt(hdr, 329) = 4 -> 131072
                     [] RomAt(hdr, 329) = 5 -> 65536,
      num_rom_banks |-> ((32768 * 2 ^ RomAt(hdr, 328)) \div 16384) % 65536 ]

\* Cartridge::new; any other type byte than 0, 1-3 and 0x0F-0x13 ends in
\* unimplemented!()
Cart_new(hdr) ==
    [ hdr |-> hdr,
      mbc |-> CASE get_cart_header(hdr).cart_type = 0 -> "MBC0"
                [] get_cart_header(hdr).cart_type \in 1..3 -> "MBC1"
                [] get_cart_header(hdr).cart_type \in 15..19 -> "MBC3"
                [] OTHER -> "unimplemented",
      two_bit_reg |-> 0, bank_mode_sel |-> FALSE,
      rtc_sel |-> FALSE, bank_num |-> 0, latch_clock_data |-> 0, rtc |-> 0,
      ram_en |-> FALSE, rom_bank_num |-> 1, ram |-> <<>> ]

\* the 2000-3FFF arm with the bank mask applied before the 0 -> 1 translation
Mut_rom_bank(c, val) ==
    LET masked == BitAnd(val % 32, (get_cart_header(c.hdr).num_rom_banks - 1) % 256)
    IN  IF masked = 0 THEN 1 ELSE masked

\* Cartridge::write, the 2000-3FFF arm: the new rom_bank_num, from the 5 low
\* bits of val for MBC1 and the 7 low bits for MBC3
rom_bank(c, val) ==
    LET masked == IF c.mbc = "MBC3" THEN val % 128 ELSE val % 32
    IN  BitAnd(IF masked = 0 THEN 1 ELSE masked,
               (get_cart_header(c.hdr).num_rom_banks - 1) % 256)

\* Cartridge::write, addr in 0000-7FFF
Cart_write(c, addr, val) ==
    IF c.mbc = "MBC0" THEN c
    ELSE IF addr <= 8191 THEN [c EXCEPT !.ram_en = (val % 16 = 10)]
    ELSE IF addr <= 16383 THEN [c EXCEPT !.rom_bank_num = rom_bank(c, val)]
    ELSE IF addr <= 24575
         THEN IF c.mbc = "MBC3"
              THEN IF val <= 3 THEN [c EXCEPT !.rtc_sel = FALSE, !.bank_num = val]
                   ELSE IF val \in 8..11 THEN [c EXCEPT !.rtc_sel = TRUE]
                   ELSE c
              ELSE IF get_cart_header(c.hdr).num_rom_banks >= 64
                      \/ get_cart_header(c.hdr).ram_size >= 32767
                   THEN [c EXCEPT !.two_bit_reg = val % 4]
                   ELSE c
    ELSE IF c.mbc = "MBC3"
         THEN [c EXCEPT !.rtc = IF c.latch_clock_data = 0 /\ val = 1 THEN @ + 1 ELSE @,
                        !.latch_clock_data = val]
         ELSE [c EXCEPT !.bank_mode_sel = (val % 2 = 1)]

\* the loop `while addr >= limit { addr &= !mask; mask >>= 1; }`; with mask = 0
\* it would never end (-1)
RECURSIVE rom_wrap(_, _, _)
rom_wrap(addr, mask, limit) ==
    IF addr < limit THEN addr
    ELSE IF mask = 0 THEN -1
    ELSE rom_wrap(IF (addr \div mask) % 2 = 1 THEN addr - mask ELSE addr,
                  mask \div 2, limit)

\* Cartridge::read, addr in 0000-7FFF: the offset into the image; bank 0 wraps
\* with `addr >= rom_size`, bank X with `addr > rom_size`
Cart_offset(c, addr) ==
    IF c.mbc = "MBC0" THEN addr
    ELSE IF addr <= 16383
         THEN rom_wrap(addr + (IF c.bank_mode_sel THEN c.two_bit_reg * 524288 ELSE 0),
                       1048576, get_cart_header(c.hdr).rom_size)
    ELSE rom_wrap((addr - 16384) + c.rom_bank_num * 16384 + c.two_bit_reg * 524288,
                  1048576, get_cart_header(c.hdr).rom_size + 1)

\* Cartridge::read, addr in 0000-7FFF: the image is rom_size bytes long, and an
\* index past its end panics
Cart_read(c, addr) ==
    [ off |-> Cart_offset(c, addr),
      panic |-> Cart_offset(c, addr) \notin 0..(get_cart_header(c.hdr).rom_size - 1),
      val |-> RomAt(c.hdr, Cart_offset(c, addr)) ]

\* the index into data.ram() of an access to A000-BFFF: the 13 address bits,
\* with the MBC3 bank number (unless the RTC is selected) or, in MBC1's mode 1,
\* the two-bit register above them
ram_index(c, addr) ==
    (addr - 40960)
    + (IF c.mbc = "MBC3" THEN (IF c.rtc_sel THEN 0 ELSE c.bank_num * 8192)
       ELSE IF c.bank_mode_sel THEN c.two_bit_reg * 8192 ELSE 0)

\* the A000-BFFF arm of write storing whether RAM is enabled or not
Mut_Cart_write_ram(c, addr, val) ==
    IF c.mbc = "MBC0" \/ ram_index(c, addr) >= get_cart_header(c.hdr).ram_size
    THEN [ cart |-> c, panic |-> FALSE ]
    ELSE [ cart |-> [c EXCEPT !.ram = Put(@, ram_index(c, addr), val)], panic |-> FALSE ]

\* Cartridge::write, addr in A000-BFFF; an index past the end of data.ram()
\* panics.  MBC0 returns before the match; the MBC3 arm checks the index against
\* ram_size, and stores with the RTC selected too
Cart_write_ram(c, addr, val) ==
    IF c.mbc = "MBC0" \/ ~c.ram_en THEN [ cart |-> c, panic |-> FALSE ]
    ELSE IF ram_index(c, addr) >= get_cart_header(c.hdr).ram_size
         THEN [ cart |-> c, panic |-> c.mbc = "MBC1" ]
    ELSE [ cart |-> [c EXCEPT !.ram = Put(@, ram_index(c, addr), val)], panic |-> FALSE ]

\* Cartridge::read, addr in A000-BFFF.  MBC0 indexes data.rom() with the bus
\* address; with RAM enabled neither MBC1 nor MBC3 checks the index
Cart_read_ram(c, addr) ==
    IF c.mbc = "MBC0"
    THEN IF addr >= get_cart_header(c.hdr).rom_size
         THEN [ val |-> 0, panic |-> TRUE ]
         ELSE [ val |-> RomAt(c.hdr, addr), panic |-> FALSE ]
    ELSE IF ~c.ram_en THEN [ val |-> 255, panic |-> FALSE ]
    ELSE IF c.mbc = "MBC3" /\ c.rtc_sel THEN [ val |-> 0, panic |-> FALSE ]
    ELSE IF ram_index(c, addr) >= get_cart_header(c.hdr).ram_size
         THEN [ val |-> 0, panic |-> TRUE ]
    ELSE [ val |-> Get(c.ram, ram_index(c, addr)), panic |-> FALSE ]

-----------------------------------------------------------------------------
(* The cartridge driven directly: Cartridge::write and Cartridge::read *)

\* the headers: no MBC with 32 KiB; MBC1 with 2, 4, ..., 128 banks and no RAM;
\* MBC1 with 4 banks and 32 KiB of RAM
Headers ==
    { [cart_type |-> 0, rom_code |-> 0, ram_code |-> 0] }
    \cup { [cart_type |-> 1, rom_code |-> k, ram_code |-> 0] : k \in 0..6 }
    \cup { [cart_type |-> 1, rom_code |-> 1, ram_code |-> 3] }

\* the bytes written to the ROM bank register
BankValues == (0..35) \cup {63, 64, 65, 96, 127, 128, 160, 192, 224, 255}

\* the bytes written to the other registers
RegValues == {0, 1, 2, 3, 10}

InitCart ==
    /\ cpu = Cpu_new
    /\ joypad = Joypad_new
    /\ mem = Mem_new
    /\ ppu = PPU_new
    /\ timer = Timer_new
    /\ intc = Intc_new
    /\ cart \in { Cart_new(h) : h \in Headers }
    /\ overflow_checks = TRUE
    /\ panicked = FALSE
    /\ frame = Frame_new
    /\ last = Last_new
    /\ prev = Last_new

CartWrite(addr, val) ==
    /\ ~panicked
    /\ cart' = Cart_write(cart, addr, val)
    /\ last' = [ kind |-> "cart_write", addr |-> addr, val |-> val ]
    /\ UNCHANGED <<joypad, cpu, mem, ppu, timer, intc, overflow_checks, panicked, frame, prev>>

CartRead(addr) ==
    /\ ~panicked
    /\ \E r \in {Cart_read(cart, addr)} :
          /\ panicked' = r.panic
          /\ last' = [ kind |-> "cart_read", addr |-> addr, val |-> r.val ]
    /\ UNCHANGED <<joypad, cpu, mem, ppu, timer, intc, cart, overflow_checks, frame, prev>>

NextCart ==
    \/ \E addr \in {8192, 16383}, val \in BankValues : CartWrite(addr, val)
    \/ \E addr \in {0, 16384, 24576}, val \in RegValues : CartWrite(addr, val)
    \/ \E addr \in {0, 16383, 16384, 32767} : CartRead(addr)

SpecCart == InitCart /\ [][NextCart]_vars

\* the claimed bank number: max(1, N & (num_rom_banks - 1))
StatedBank(c, n) ==
    LET m == BitAnd(n, get_cart_header(c.hdr).num_rom_banks - 1)
    IN  IF m < 1 THEN 1 ELSE m

\* C11 (as stated): for MBC1 with 2..128 banks and the secondary register 0, after
\* N is written to 2000-3FFF a read of 0x4000 returns the ROM byte at offset
\* max(1, N & (num_rom_banks - 1)) * 0x4000.
C11_BankAsStated ==
    (last.kind = "cart_write" /\ last.addr \in 8192..16383
        /\ cart.mbc = "MBC1" /\ cart.two_bit_reg = 0)
    => Cart_read(cart, 16384) =
          [ off |-> StatedBank(cart, last.val) * 16384, panic |-> FALSE,
            val |-> RomAt(cart.hdr, StatedBank(cart, last.val) * 16384) ]

\* the bank the register selects: N is masked to 5 bits, 0 becomes 1, and the
\* result is masked with num_rom_banks - 1, which can give bank 0
MaskedBank(c, n) ==
    BitAnd(IF n % 32 = 0 THEN 1 ELSE n % 32, get_cart_header(c.hdr).num_rom_banks - 1)

\* C11 (amended): for MBC1 with 2..128 banks and the secondary register 0, after
\* N is written to 2000-3FFF a read of 0x4000 returns, without a panic, the ROM
\* byte at offset B * 0x4000, where B = (N & 0x1F, or 1 if that is 0) &
\* (num_rom_banks - 1).
C11_BankRead ==
    (last.kind = "cart_write" /\ last.addr \in 8192..16383
        /\ cart.mbc = "MBC1" /\ cart.two_bit_reg = 0)
    => Cart_read(cart, 16384) =
          [ off |-> MaskedBank(cart, last.val) * 16384, panic |-> FALSE,
            val |-> RomAt(cart.hdr, MaskedBank(cart, last.val) * 16384) ]

\* N = 0x10 written to a 16-bank MBC1 cartridge: bank 0 is read at 0x4000
C11_Witness ==
    /\ last.kind = "cart_write" /\ last.addr = 8192 /\ last.val = 16
    /\ cart.mbc = "MBC1" /\ get_cart_header(cart.hdr).num_rom_banks = 16
    /\ cart.two_bit_reg = 0 /\ cart.rom_bank_num = 0
    /\ Cart_read(cart, 16384).off = 0

-----------------------------------------------------------------------------
(* The timer driven directly: Timer::tick from a system counter of 0 *)

\* TAC: disabled, and enabled with each clock select; TIMA: 0 and two ticks
\* before its overflow; TMA: 0 and 200
InitTimer ==
    /\ cpu = Cpu_new
    /\ joypad = Joypad_new
    /\ mem = Mem_new
    /\ ppu = PPU_new
    /\ timer \in { [Timer_new EXCEPT !.tac = c, !.tima = a, !.tma = m] :
                      c \in {1, 4, 5, 6, 7}, a \in {0, 254}, m \in {0, 200} }
    /\ intc = Intc_new
    /\ cart = NoCart
    /\ overflow_checks = TRUE
    /\ panicked = FALSE
    /\ frame = Frame_new
    /\ last = Last_new
    /\ prev = Last_new

TimerTick ==
    /\ last.steps < MaxTicks
    /\ \E r \in {Timer_tick(timer)} :
          /\ timer' = r.timer
          /\ last' = [ kind |-> "tick", steps |-> last.steps + 1, pre |-> timer,
                       int |-> r.int ]
    /\ UNCHANGED <<joypad, cpu, mem, ppu, intc, cart, overflow_checks, panicked, frame, prev>>

NextTimer == TimerTick

SpecTimer == InitTimer /\ [][NextTimer]_vars

\* the number of ticks between two increments the claim gives for a clock select
StatedPeriod(tac) ==
    CASE tac % 4 = 0 -> 256 [] tac % 4 = 1 -> 4 [] tac % 4 = 2 -> 16 [] tac % 4 = 3 -> 64

\* C12: with the timer enabled and the system counter started at 0, a tick
\* changes TIMA exactly when it brings the counter to a multiple of 256, 4, 16
\* or 64 (clock select 0, 1, 2, 3): TIMA then goes up by one (from 0xFF it is
\* reloaded from TMA and the tick reports an interrupt); on every other tick
\* TIMA is unchanged and no interrupt is reported.
C12_TimaPeriod ==
    (last.kind = "tick" /\ Timer_enabled(last.pre))
    => IF timer.system_counter % StatedPeriod(timer.tac) = 0
       THEN /\ timer.system_counter = last.pre.system_counter + 1
            /\ timer.tima = IF last.pre.tima = 255 THEN last.pre.tma
                            ELSE last.pre.tima + 1
            /\ last.int = (last.pre.tima = 255)
       ELSE /\ timer.system_counter = last.pre.system_counter + 1
            /\ timer.tima = last.pre.tima
            /\ ~last.int

\* TAC = 0x05: the eighth tick takes TIMA from 1 to 2
C12_Witness ==
    /\ last.kind = "tick" /\ timer.tac = 5 /\ timer.system_counter = 8
    /\ last.pre.tima = 1 /\ timer.tima = 2

-----------------------------------------------------------------------------
(* The interrupt controller driven directly *)

Sources == {"VBLANK", "LCD", "TIMER", "SERIAL", "JOYPAD"}

\* the bytes written to FF0F and FFFF
IntcValues == {0, 1, 2, 4, 8, 16, 28, 31, 224, 255}

InitIntc ==
    /\ cpu = Cpu_new
    /\ joypad = Joypad_new
    /\ mem = Mem_new
    /\ ppu = PPU_new
    /\ timer = Timer_new
    /\ intc = Intc_new
    /\ cart = NoCart
    /\ overflow_checks = TRUE
    /\ panicked = FALSE
    /\ frame = Frame_new
    /\ last = Last_new
    /\ prev = Last_new

\* an operation that changes the controller from intc to ic
IntcOp(ic, op) ==
    /\ intc' = ic
    /\ last' = op
    /\ UNCHANGED <<joypad, cpu, mem, ppu, timer, cart, overflow_checks, panicked, frame, prev>>

IntcWrite(addr, val) ==
    IntcOp(Intc_write(intc, addr, val), [ kind |-> "write", addr |-> addr, val |-> val ])

IntcRead(addr) ==
    IntcOp(intc, [ kind |-> "read", addr |-> addr, ret |-> Intc_read(intc, addr) ])

IntcInterrupt(src) ==
    IntcOp(interrupt(intc, src), [ kind |-> "interrupt", src |-> src ])

IntcClear(src) ==
    IntcOp(interrupt_clear(intc, src), [ kind |-> "clear", src |-> src ])

\* interrupt(src) followed by interrupt_clear(src)
IntcRaiseClear(src) ==
    IntcOp(interrupt_clear(interrupt(intc, src), src),
           [ kind |-> "raise_clear", src |-> src, pre |-> intc ])

\* next() takes &mut self and assigns to no field
IntcNext ==
    IntcOp(intc, [ kind |-> "next", ret |-> Intc_next(intc), pre |-> intc ])

NextIntc ==
    \/ \E addr \in {65295, 65535}, val \in IntcValues : IntcWrite(addr, val)
    \/ \E addr \in {65295, 65535} : IntcRead(addr)
    \/ \E src \in Sources : IntcInterrupt(src)
    \/ \E src \in Sources : IntcClear(src)
    \/ \E src \in Sources : IntcRaiseClear(src)
    \/ IntcNext

SpecIntc == InitIntc /\ [][NextIntc]_vars

C14_PendingMasked == pending(intc) <=> BitAnd(intc.int_f, intc.int_en) # 0

\* the source of bit b
SourceOfBit(b) ==
    CASE b = 0 -> "VBLANK" [] b = 1 -> "LCD" [] b = 2 -> "TIMER" [] b = 3 -> "SERIAL"
      [] b = 4 -> "JOYPAD"

\* C15: in every controller state next() returns the source of the lowest set
\* bit of IF & IE, returns None exactly when IF & IE = 0 (so it ends, and never
\* reaches unreachable!()), and leaves IF and IE unchanged.
C15_NextLowest ==
    /\ Intc_next(intc) = IF Requested(intc) = 0 THEN "None"
                         ELSE SourceOfBit(LowestBit(Requested(intc)))
    /\ last.kind = "next"
       => /\ intc = last.pre
          /\ last.ret = Intc_next(last.pre)

\* IF = 0x1F, IE = 0x1C: next() returns TIMER
C15_Witness ==
    /\ last.kind = "next" /\ last.ret = "TIMER"
    /\ intc.int_f = 31 /\ intc.int_en = 28

\* C16: IF and IE always hold values in 0..0x1F; a read of FF0F or FFFF returns
\* the stored value, and after a write it returns the written byte & 0x1F.
C16_FiveBits ==
    /\ intc.int_f \in 0..31
    /\ intc.int_en \in 0..31
    /\ last.kind = "read"
       => last.ret = IF last.addr = 65295 THEN intc.int_f ELSE intc.int_en
    /\ last.kind = "write"
       => Intc_read(intc, last.addr) = BitAnd(last.val, 31)

\* 0xFF written to FFFF with every flag of IF set: IE reads 0x1F
C16_Witness ==
    /\ last.kind = "write" /\ last.addr = 65535 /\ last.val = 255
    /\ intc.int_en = 31 /\ intc.int_f = 31 /\ Intc_read(intc, 65535) = 31

-----------------------------------------------------------------------------
(* The bus accessed directly: StaticBus::write and StaticBus::read *)

\* one address of every arm of StaticBus::write, with both ends of echo RAM
BusAddrs ==
    { 0, 16384, 32768, 40960, 49152, 53248, 57344, 65023, 65024, 65184, 65280,
      65281, 65284, 65285, 65288, 65295, 65296, 65344, 65350, 65356, 65408, 65535 }

\* the bytes written: 0 and 0xC0, which as a DMA source selects C000
BusValues == {0, 192}

\* a loaded image with a byte at both ends of each 16 KiB half
RomImage == [ a \in {0, 16383, 16384, 32767} |-> 1 + a \div 16383 ]

InitMem ==
    /\ cpu = Cpu_new
    /\ joypad = Joypad_new
    /\ mem = [Mem_new EXCEPT !.rom = RomImage]
    /\ ppu = PPU_new
    /\ timer = Timer_new
    /\ intc = Intc_new
    /\ cart = NoCart
    /\ overflow_checks = TRUE
    /\ panicked = FALSE
    /\ frame = Frame_new
    /\ last = Last_new
    /\ prev = Last_new

\* one call of StaticBus::write; a panic ends the process where it stood
BusWrite(addr, val, limit) ==
    /\ ~panicked
    /\ last.steps < limit
    /\ \E r \in {Bus_write(M, addr, val)} :
          IF r.panic
          THEN /\ panicked' = TRUE
               /\ UNCHANGED <<joypad, mem, ppu, timer, intc>>
          ELSE /\ panicked' = FALSE
               /\ mem' = r.mem
               /\ ppu' = r.ppu
               /\ timer' = r.timer
               /\ intc' = r.intc
    /\ last' = [ kind |-> "bus_write", steps |-> last.steps + 1, addr |-> addr,
                 val |-> val, pre |-> M ]
    /\ UNCHANGED <<joypad, cpu, cart, overflow_checks, frame, prev>>

NextMem == \E addr \in BusAddrs, val \in BusValues : BusWrite(addr, val, MaxBusOps)

SpecMem == InitMem /\ [][NextMem]_vars

\* C17: no bus access panics; a write to echo RAM (E000-FDFF) is dropped and a
\* read there returns 0.
C17_NoPanic ==
    /\ ~panicked
    /\ \A a \in BusAddrs : Bus_read(M, a) \in 0..255
    /\ \A a \in {57344, 65023} : Bus_read(M, a) = 0
    /\ (last.kind = "bus_write" /\ last.addr \in 57344..65023)
       => /\ mem = last.pre.mem /\ ppu = last.pre.ppu
          /\ timer = last.pre.timer /\ intc = last.pre.intc

\* C18: after any sequence of bus writes every read in 0000-7FFF returns the
\* byte of the loaded image.
C18_RomUnchanged == \A a \in DOMAIN RomImage : Bus_read(M, a) = RomImage[a]

-----------------------------------------------------------------------------
(* The serial data register: StaticBus::write to FF01 and StaticBus::is_passed *)

PassedStr == <<80, 97, 115, 115, 101, 100>>

FibBytes == <<3, 5, 8, 13, 21, 34>>

\* the bytes the n-th write draws from: the byte of "Passed" and of the
\* Fibonacci sequence at that position, the byte of "Passed" one position
\* behind, and 0xFF
SerialBytes(n) ==
    { PassedStr[(n % 6) + 1], PassedStr[((n + 5) % 6) + 1], FibBytes[(n % 6) + 1], 255 }

\* the length of the UTF-8 sequence a byte starts (0: not a first byte)
utf8_width(x) ==
    IF x < 128 THEN 1
    ELSE IF x \in 194..223 THEN 2
    ELSE IF x \in 224..239 THEN 3
    ELSE IF x \in 240..244 THEN 4
    ELSE 0

\* the second bytes a first byte allows
utf8_second(x) ==
    CASE x = 224 -> 160..191
      [] x = 237 -> 128..159
      [] x = 240 -> 144..191
      [] x = 244 -> 128..143
      [] OTHER   -> 128..191

\* std::str::from_utf8(sl).is_ok()
RECURSIVE from_utf8_ok(_)
from_utf8_ok(b) ==
    IF b = <<>> THEN TRUE
    ELSE /\ utf8_width(b[1]) > 0
         /\ Len(b) >= utf8_width(b[1])
         /\ utf8_width(b[1]) >= 2 => b[2] \in utf8_second(b[1])
         /\ utf8_width(b[1]) >= 3 => b[3] \in 128..191
         /\ utf8_width(b[1]) = 4 => b[4] \in 128..191
         /\ from_utf8_ok(SubSeq(b, utf8_width(b[1]) + 1, Len(b)))

\* StaticBus::is_passed: passed_buf is contiguous after every write, so the
\* first slice is the whole history; expect() panics on invalid UTF-8
is_passed(buf) ==
    IF from_utf8_ok(buf) THEN [ panic |-> FALSE, ret |-> buf = PassedStr ]
    ELSE [ panic |-> TRUE, ret |-> FALSE ]

InitSerial == InitMem

NextSerial == \E val \in SerialBytes(last.steps) : BusWrite(65281, val, MaxSerial)

SpecSerial == InitSerial /\ [][NextSerial]_vars

\* C20: for every sequence of bytes written to FF01, is_passed() does not panic
\* and is true exactly when the last six bytes written are "Passed" or
\* [3, 5, 8, 13, 21, 34]; at most six bytes are retained.
C20_IsPassed ==
    /\ ~is_passed(mem.passed_buf).panic
    /\ is_passed(mem.passed_buf).ret <=> mem.passed_buf \in {PassedStr, FibBytes}
    /\ Len(mem.passed_buf) <= 6

-----------------------------------------------------------------------------
(* The driver: GbRs::run_one (src/src/gb.rs), one iteration of its loop *)

\* the loop body after `let cycles = self.cpu.run_one()`: the PPU is run, the
\* timer is ticked and the interrupts are latched for `cycles` cycles; r is the
\* step Cpu::run_one made
gb_iteration(r) == [r EXCEPT !.s = Bus_run_cycles(@, r.cycles)]

\* one iteration of `for _ in 0..100`
GbRunOne(limit) ==
    /\ ~panicked
    /\ last.steps < limit
    /\ \E r \in {gb_iteration(run_one(M))} :
          /\ IF r.s.panic
             THEN /\ panicked' = TRUE
                  /\ UNCHANGED <<joypad, cpu, mem, ppu, timer, intc>>
             ELSE /\ panicked' = FALSE
                  /\ cpu' = r.s.cpu
                  /\ mem' = r.s.mem
                  /\ ppu' = r.s.ppu
                  /\ timer' = r.s.timer
                  /\ intc' = r.s.intc
          /\ last' = [ steps |-> last.steps + 1, kind |-> r.kind, fetched |-> r.fetched,
                       instr |-> r.instr, cycles |-> r.cycles, writes |-> r.s.writes,
                       mid_intc |-> r.mid.intc, mid_ppu |-> r.mid.ppu,
                       mid_timer |-> r.mid.timer, pre |-> M ]
          /\ prev' = last
          /\ UNCHANGED <<joypad, cart, overflow_checks, frame>>

InitGb == InitCpu

NextGb == GbRunOne(MaxSteps)

SpecGb == InitGb /\ [][NextGb]_vars

\* C19: in every iteration of GbRs::run_one that does not panic, the timer is
\* ticked exactly as many times as the CPU step reported cycles and the PPU is
\* run for exactly that many cycles, once, after the CPU step.
C19_CyclesOnce ==
    (last.steps > 0 /\ ~panicked)
    => /\ timer = TickN(last.mid_timer, last.cycles).timer
       /\ ppu = PPU_run(last.mid_ppu, last.cycles).ppu

-----------------------------------------------------------------------------
(* Instruction costs and 16-bit wrap-around: the CPU running one             *)
(* instruction of each operand form after a prologue that sets SP, HL, A     *)
(* and the flags, and programs that bring PC or SP to the ends of the        *)
(* address space.                                                            *)

\* HL pointing into work RAM and into the fixed ROM bank
CycHl == {49152, 336}

\* the addends of the prologue's ADD A: they leave Z and C clear, set, or H alone
CycImm == {0, 255, 15}

\* LD SP, 0xDFF0; LD HL, hl; ADD A, imm
Prologue(hl, imm) == <<49, 240, 223, 33, hl % 256, hl \div 256, 198, imm>>

\* B, (HL) and A in the three-bit register encoding
CycRegs == {0, 6, 7}

\* one instruction of every family that takes an r8 operand, in the register
\* and in the (HL) form, and every conditional JR, JP, CALL and RET
CycInstrs ==
    { <<4 + 8 * r>> : r \in CycRegs } \cup { <<5 + 8 * r>> : r \in CycRegs }
      \cup { <<6 + 8 * r, 90>> : r \in CycRegs }
      \cup { <<65>>, <<70>>, <<112>>, <<126>>, <<119>> }
      \cup { <<128 + 8 * k + r>> : k \in 0..7, r \in CycRegs }
      \cup { <<203, 8 * k + r>> : k \in 0..7, r \in CycRegs }
      \cup { <<203, 64 * j + 8 * b + r>> : j \in 1..3, b \in {0, 7}, r \in CycRegs }
      \cup { <<32 + 8 * cc, e>> : cc \in 0..3, e \in {2, 254} }
      \cup { <<194 + 8 * cc, 80, 1>> : cc \in 0..3 }
      \cup { <<196 + 8 * cc, 80, 1>> : cc \in 0..3 }
      \cup { <<192 + 8 * cc>> : cc \in 0..3 }

CycPrograms == { Prologue(hl, imm) \o i : hl \in CycHl, imm \in CycImm, i \in CycInstrs }

\* IE holds the opcode fetched at 0xFFFF: NOP, INC B, LD A, n
WrapIe == {0, 4, 62}

\* LD A, ie; LDH (0xFF), A; JP 0xFFFF: the next fetch is at PC = 0xFFFF
WrapPcProgram(ie) == <<62, ie, 224, 255, 195, 255, 255>>

\* LD SP, 0x0000; LD BC, hi:lo; then PUSH BC or CALL 0x0150
WrapPushProgram(hi, lo, op) == <<49, 0, 0, 1, lo, hi>> \o op

\* LD SP, 0xFFFF or 0xFFFE; NOP; then POP BC, POP AF or RET
WrapPopProgram(sp, op) == <<49, sp % 256, sp \div 256, 0, op>>

WrapPrograms ==
    { WrapPcProgram(ie) : ie \in WrapIe }
      \cup { WrapPushProgram(hi, lo, op) : hi \in HighBytes, lo \in {0, 52},
                                           op \in {<<197>>, <<205, 80, 1>>} }
      \cup { WrapPopProgram(sp, op) : sp \in {65535, 65534}, op \in {193, 241, 201} }

InitInstr == InitRom(CycPrograms \cup WrapPrograms)

SpecInstr == InitInstr /\ [][NextAlu]_vars

\* the machine execute_instr received in the last step: the one next_instr left
Decoded == next_instr(last.pre).s

\* the instruction has an r8 operand that names (HL)
HasHl(i) == (i.op1.k = "R8" /\ i.op1.v = 6) \/ (i.op2.k = "R8" /\ i.op2.v = 6)

\* the same instruction with register B where it names (HL)
RegForm(i) ==
    [i EXCEPT !.op1.v = IF i.op1.k = "R8" /\ @ = 6 THEN 0 ELSE @,
              !.op2.v = IF i.op2.k = "R8" /\ @ = 6 THEN 0 ELSE @]

IsCond(i) == i.opcode \in {"JR", "JP", "CALL", "RET"} /\ i.op1.k = "Cond"

\* the cycles the same conditional instruction reports when its condition
\* has the other truth value
OtherWay(i) ==
    execute_instr([Decoded EXCEPT !.cpu.z_f = ~@, !.cpu.c_f = ~@], i).cycles

\* a conditional JR, JP, CALL or RET costs more taken than not taken
CondCosts ==
    (last.kind = "exec" /\ ~panicked /\ IsCond(last.instr)) =>
        IF check_cond(Decoded.cpu, last.instr.op1.v)
        THEN last.cycles > OtherWay(last.instr)
        ELSE last.cycles < OtherWay(last.instr)

\* C23 (as stated): an instruction with an (HL) operand reports exactly one
\* machine cycle more than the same instruction with a register operand, and a
\* conditional JR, JP, CALL or RET reports more cycles taken than not taken
C23_HlOneMore ==
    /\ (last.kind = "exec" /\ ~panicked /\ HasHl(last.instr)) =>
          last.cycles = execute_instr(Decoded, RegForm(last.instr)).cycles + 1
    /\ CondCosts

\* the machine cycles the (HL) form adds: a read or a write adds one, a read
\* and a write (INC, DEC, the 0xCB rotates and shifts, RES, SET) add two
HlExtra(opcode) ==
    IF opcode \in {"INC", "DEC", "RES", "SET"} \cup RotOps THEN 2 ELSE 1

\* C23: an instruction with an (HL) operand reports one machine cycle more
\* than its register form when it only reads or only writes memory (LD, the
\* ALU operations on A, BIT) and two more when it reads and writes (INC, DEC,
\* rotates, shifts, SWAP, RES, SET); a conditional JR, JP, CALL or RET reports
\* more cycles taken than not taken
C23_HlCosts ==
    /\ (last.kind = "exec" /\ ~panicked /\ HasHl(last.instr)) =>
          last.cycles = execute_instr(Decoded, RegForm(last.instr)).cycles
                        + HlExtra(last.instr.opcode)
    /\ CondCosts

C23_Witness ==
    /\ last.kind = "exec" /\ ~panicked
    /\ last.instr.opcode = "SET" /\ last.instr.op2 = Operand("R8", 6)
    /\ last.cycles = 4
    /\ prev.kind = "exec" /\ prev.instr.opcode = "ADD"

\* the last step ran an arithmetic on PC or SP that leaves 0..0xFFFF: a fetch
\* at PC = 0xFFFF, a push from SP <= 1, a pop from SP >= 0xFFFE
AtWrap ==
    /\ last.kind = "exec"
    /\ \/ last.pre.cpu.pc = 65535
       \/ last.instr.opcode \in {"PUSH", "CALL"} /\ last.pre.cpu.sp <= 1
       \/ last.instr.opcode \in {"POP", "RET"} /\ last.pre.cpu.sp >= 65534

\* C24: PC and SP arithmetic wraps modulo 2^16 and never faults: after a fetch
\* at PC = 0xFFFF the CPU continues from 0x0000, a push with SP = 0x0000 stores
\* at 0xFFFF and 0xFFFE and leaves SP = 0xFFFE, a pop with SP = 0xFFFF leaves
\* SP = 0x0001
C24_PcSpWrap ==
    AtWrap =>
        /\ ~panicked
        /\ last.pre.cpu.pc = 65535 /\ last.instr.opcode = "NOP" => cpu.pc = 0
        /\ last.instr.opcode = "PUSH" /\ last.pre.cpu.sp = 0 =>
              /\ cpu.sp = 65534
              /\ last.writes = <<<<65535, last.pre.cpu.b>>, <<65534, last.pre.cpu.c>>>>
        /\ last.instr.opcode = "POP" /\ last.pre.cpu.sp = 65535 => cpu.sp = 1

-----------------------------------------------------------------------------
(* Sprites: src/src/oam.rs, src/src/tile.rs and the sprite part of           *)
(* PPU::render_line in src/src/ppu.rs.  The OAM is mem.ram at 0xFE00.., the  *)
(* tile data mem.ram at 0x8000..; a line of pixels is a sequence whose       *)
(* element d + 1 is the pixel at screen column d.                            *)

\* OamEntry: y_pos, x_pos, tile_idx and the flags byte of entry i
OamEntry(m, i) ==
    [ y_pos |-> Get(m.ram, 65024 + 4 * i), x_pos |-> Get(m.ram, 65025 + 4 * i),
      tile_idx |-> Get(m.ram, 65026 + 4 * i), flags |-> Get(m.ram, 65027 + 4 * i) ]

\* the loop of OamMap::get_oams_line from entry i on: the indices of the
\* entries pushed, in OAM order
RECURSIVE oams_scan(_, _, _, _, _)
oams_scan(m, ly, tile_height, i, oams) ==
    IF i = 40 \/ Len(oams) = 10 THEN oams
    ELSE LET y == OamEntry(m, i).y_pos
         IN  IF y = 0 \/ y >= 160 THEN oams_scan(m, ly, tile_height, i + 1, oams)
             ELSE IF ly + 16 >= y /\ ly + 16 < y + tile_height
                  THEN oams_scan(m, ly, tile_height, i + 1, Append(oams, i))
                  ELSE oams_scan(m, ly, tile_height, i + 1, oams)

\* what sort_unstable_by(|l, r| r.x_pos().cmp(&l.x_pos())) may leave of the
\* entries in `set`: decreasing X, entries of equal X in an order the sort
\* does not specify
RECURSIVE sort_unstable_by(_, _)
sort_unstable_by(m, set) ==
    IF set = {} THEN { <<>> }
    ELSE LET tops == { e \in set : \A o \in set : OamEntry(m, o).x_pos <= OamEntry(m, e).x_pos }
         IN  UNION { { <<e>> \o r : r \in sort_unstable_by(m, set \ {e}) } : e \in tops }

Mut_get_oams_line(m, ly, large_tiles) ==
    LET oams == oams_scan(m, ly, IF large_tiles THEN 16 ELSE 8, 1, <<>>)
    IN  sort_unstable_by(m, { oams[k] : k \in 1..Len(oams) })

\* OamMap::get_oams_line: the lists it may return
get_oams_line(m, ly, large_tiles) ==
    LET oams == oams_scan(m, ly, IF large_tiles THEN 16 ELSE 8, 0, <<>>)
    IN  sort_unstable_by(m, { oams[k] : k \in 1..Len(oams) })

\* make_line of Tile::pixel_buf: the loop `for i in 0..7` writes line[0..=6]
make_line(b1, b2) ==
    [ j \in 1..8 |-> IF j - 1 < 7 THEN Bit(b1, 8 - j) + 2 * Bit(b2, 8 - j) ELSE 0 ]

\* Tile::pixel_buf of tile number tile (16 bytes at 0x8000 + 16 * tile);
\* line_idx < 8 at every call
pixel_buf(m, tile, line_idx) ==
    make_line(Get(m.ram, 32768 + 16 * tile + 2 * line_idx),
              Get(m.ram, 32768 + 16 * tile + 2 * line_idx + 1))

\* OamEntry::get_pixels
get_pixels(m, e, line_idx, large_tiles) ==
    LET upper == large_tiles /\ line_idx >= 8
        tile_idx == IF ~large_tiles THEN e.tile_idx
                    ELSE IF upper THEN BitClear(e.tile_idx, 1) ELSE BitOr(e.tile_idx, 1)
        l1 == IF upper THEN line_idx - 8 ELSE line_idx
        l2 == IF Bit(e.flags, 6) = 1 THEN 7 - l1 ELSE l1
    IN  IF Bit(e.flags, 5) = 1
        THEN [ j \in 1..8 |-> pixel_buf(m, tile_idx, l2)[9 - j] ]
        ELSE pixel_buf(m, tile_idx, l2)

\* PPU::render_pixel
render_pixel(color_id, pallete) == (pallete \div (4 ^ color_id)) % 4

\* one iteration of the sprite loop of PPU::render_line: src pixel k lands on
\* screen column x - 8 + k (the three slicings clip it to 0..159)
draw_sprite(line, m, p, e) ==
    LET src == get_pixels(m, e, (p.ly + 16) - e.y_pos, Bit(p.lcdc, 2) = 1)
        pal == IF Bit(e.flags, 4) = 1 THEN p.obp1 ELSE p.obp0
    IN  IF e.x_pos = 0 \/ e.x_pos >= 168 THEN line
        ELSE [ d \in 1..160 |->
                 LET k == d - e.x_pos + 8
                 IN  IF k < 1 \/ k > 8 THEN line[d]
                     ELSE IF Bit(e.flags, 7) = 1
                          THEN (IF line[d] = 0 THEN render_pixel(src[k], pal) ELSE line[d])
                          ELSE (IF src[k] # 0 THEN render_pixel(src[k], pal) ELSE line[d]) ]

\* the sprite loop of PPU::render_line over the list oams
RECURSIVE draw_sprites(_, _, _, _)
draw_sprites(line, m, p, oams) ==
    IF oams = <<>> THEN line
    ELSE draw_sprites(draw_sprite(line, m, p, OamEntry(m, Head(oams))), m, p, Tail(oams))

\* the 8x8 tiles of the sprite scenes, a pair <<b1, b2>> for each row: tiles
\* 0, 1, 2 are plain colour 1, 2, 3; tile 3 is colour 1 on the right half and
\* 2 on the left; tile 4 is colour 3 on the left half and transparent on the
\* right; tile 5 is a diagonal; tile 6 is empty; tile 7 has bit 0 alone
TileRow(tile, row) ==
    CASE tile = 0 -> <<255, 0>> [] tile = 1 -> <<0, 255>> [] tile = 2 -> <<255, 255>>
      [] tile = 3 -> <<15, 240>> [] tile = 4 -> <<240, 240>>
      [] tile = 5 -> <<2 ^ (7 - row), 0>> [] tile = 6 -> <<0, 0>> [] tile = 7 -> <<1, 129>>

VramImage ==
    [ a \in { 32768 + 16 * tile + 2 * row + k : tile \in {0, 1, 2, 3, 4, 5, 7},
                                                 row \in 0..7, k \in 0..1 }
        |-> TileRow((a - 32768) \div 16, ((a - 32768) % 16) \div 2)[1 + (a % 2)] ]

\* OAM tables, an entry being <<Y, X, tile, flags>>: four overlapping sprites
\* (the scenario of tests::oam_overlap on line 0); sprites of equal X; twelve
\* sprites on one line behind an entry with Y = 0 and one with Y = 160;
\* clipped, flipped, low-priority and second-palette sprites, one of them a
\* half-transparent low-priority sprite alone on the background, and the last
\* visible line
OamTables ==
    { << <<16, 8, 0, 0>>, <<16, 10, 1, 0>>, <<16, 12, 2, 0>>, <<16, 14, 3, 0>> >>,
      << <<16, 20, 0, 0>>, <<16, 20, 1, 0>>, <<16, 20, 4, 0>>, <<17, 24, 3, 16>> >>,
      << <<0, 8, 0, 0>>, <<160, 8, 0, 0>> >>
         \o [ i \in 1..12 |-> <<16, 8 * i, i % 4, 0>> ],
      << <<9, 4, 3, 0>>, <<16, 164, 5, 32>>, <<16, 168, 0, 0>>, <<16, 0, 0, 0>>,
         <<24, 40, 5, 64>>, <<16, 52, 1, 0>>, <<16, 50, 2, 128>>, <<158, 60, 0, 16>>,
         <<159, 70, 1, 0>>, <<23, 80, 7, 96>>, <<12, 90, 4, 0>>, <<16, 100, 4, 144>> >>,
      << <<16, 30, 4, 0>>, <<16, 32, 0, 144>>, <<16, 32, 1, 0>>, <<16, 36, 2, 0>>,
         <<16, 36, 3, 32>> >> }

OamImage(tbl) ==
    [ a \in { 65024 + 4 * (i - 1) + (k - 1) : i \in 1..Len(tbl), k \in 1..4 }
        |-> tbl[1 + (a - 65024) \div 4][1 + (a % 4)] ]

\* the function with the zero entries left out, as mem.ram holds it
NonZero(f) == [ a \in { b \in DOMAIN f : f[b] # 0 } |-> f[a] ]

\* the lines rendered
SpriteLines == {0, 1, 7, 8, 15, 142}

\* the renders of one run
MaxRender == 2

\* the PPU about to render line ly with the background and the window off
\* and sprites on, small (LCDC = 0x02 with the LCD off, 0x82 with it on) or
\* large (0x06); OBP0 is the identity palette, OBP1 the reversed one
InitSprite ==
    /\ cpu = Cpu_new
    /\ joypad = Joypad_new
    /\ mem \in { [Mem_new EXCEPT !.ram = NonZero(OamImage(tbl) @@ VramImage)] : tbl \in OamTables }
    /\ ppu \in { [PPU_new EXCEPT !.mode = "DRAW", !.r_cyc = 43, !.ly = ly, !.lcdc = lcdc,
                                 !.obp0 = 228, !.obp1 = 27] :
                 ly \in SpriteLines, lcdc \in {2, 6, 130} }
    /\ timer = Timer_new
    /\ intc = Intc_new
    /\ overflow_checks \in BOOLEAN
    /\ panicked = FALSE
    /\ frame = Frame_new
    /\ last = Last_new
    /\ prev = Last_new
    /\ cart = NoCart

\* PPU::render_line with LCDC bits 0 and 5 clear: render_new_bg2 fills the
\* line with 0, the window is skipped, the sprites are drawn over it
RenderLine ==
    /\ last.steps < MaxRender
    /\ Bit(ppu.lcdc, 0) = 0 /\ Bit(ppu.lcdc, 5) = 0 /\ Bit(ppu.lcdc, 1) = 1
    /\ \E oams \in get_oams_line(mem, ppu.ly, Bit(ppu.lcdc, 2) = 1) :
          last' = [ kind |-> "render_line", steps |-> last.steps + 1, oams |-> oams,
                    line |-> draw_sprites([ d \in 1..160 |-> 0 ], mem, ppu, oams) ]
    /\ ppu' = render_line(ppu)
    /\ UNCHANGED <<joypad, cpu, mem, timer, intc, cart, overflow_checks, panicked, frame, prev>>

\* Tile::pixel_buf(line_idx) on the tile number tile
TilePixelBuf(tile, line_idx) ==
    /\ last.steps < MaxRender
    /\ last' = [ kind |-> "pixel_buf", steps |-> last.steps + 1, tile |-> tile,
                 line_idx |-> line_idx, pixels |-> pixel_buf(mem, tile, line_idx) ]
    /\ UNCHANGED <<joypad, cpu, mem, ppu, timer, intc, cart, overflow_checks, panicked, frame, prev>>

NextSprite ==
    \/ RenderLine
    \/ \E tile \in 0..7, line_idx \in 0..7 : TilePixelBuf(tile, line_idx)

SpecSprite == InitSprite /\ [][NextSprite]_vars

\* the entries the last render selected
Selected == { last.oams[k] : k \in 1..Len(last.oams) }

\* the row of sprite i on the line being rendered
RowOf(i) ==
    get_pixels(mem, OamEntry(mem, i), (ppu.ly + 16) - OamEntry(mem, i).y_pos,
               Bit(ppu.lcdc, 2) = 1)

\* the sprites of Selected with a non-transparent pixel on screen column d - 1
Covering(d) ==
    { i \in Selected :
        LET x == OamEntry(mem, i).x_pos
        IN  x # 0 /\ x < 168 /\ d - x + 8 \in 1..8 /\ RowOf(i)[d - x + 8] # 0 }

\* the sprite that is on top among `set` when the sprites are drawn in
\* decreasing X and, for equal X, in OAM order: lowest X, then highest index
TopOf(set) ==
    CHOOSE i \in set : \A o \in set :
        \/ OamEntry(mem, i).x_pos < OamEntry(mem, o).x_pos
        \/ OamEntry(mem, i).x_pos = OamEntry(mem, o).x_pos /\ i >= o

\* C21: the sprites selected for a line are drawn in decreasing X, sprites of
\* equal X in OAM order, so that every pixel shows the colour of the
\* lowest-X sprite that is not transparent there (the later OAM entry among
\* equal X) and the background where every sprite is transparent
C21_DrawOrder ==
    last.kind = "render_line" =>
        /\ \A j, k \in 1..Len(last.oams) : j < k =>
              \/ OamEntry(mem, last.oams[j]).x_pos > OamEntry(mem, last.oams[k]).x_pos
              \/ /\ OamEntry(mem, last.oams[j]).x_pos = OamEntry(mem, last.oams[k]).x_pos
                 /\ last.oams[j] < last.oams[k]
        /\ \A d \in 1..160 :
              IF Covering(d) = {} THEN last.line[d] = 0
              ELSE LET i == TopOf(Covering(d))
                       e == OamEntry(mem, i)
                   IN  last.line[d] = render_pixel(RowOf(i)[d - e.x_pos + 8],
                                                   IF Bit(e.flags, 4) = 1 THEN ppu.obp1
                                                   ELSE ppu.obp0)

\* the entries whose vertical extent [Y - 16, Y - 16 + height) contains line ly
Matching(ly, height) ==
    { i \in 0..39 : OamEntry(mem, i).y_pos - 16 <= ly /\ ly < OamEntry(mem, i).y_pos - 16 + height }

\* the first ten of a set of entries in index order
FirstTen(set) == { i \in set : Cardinality({ j \in set : j < i }) < 10 }

\* C22: for a line the PPU renders, get_oams_line returns at most 10 entries,
\* each once: exactly the first (up to ten) OAM entries in index order whose
\* vertical extent [Y - 16, Y - 16 + height) contains the line
C22_FirstTen ==
    last.kind = "render_line" =>
        /\ Len(last.oams) <= 10
        /\ Cardinality(Selected) = Len(last.oams)
        /\ Selected = FirstTen(Matching(ppu.ly, IF Bit(ppu.lcdc, 2) = 1 THEN 16 ELSE 8))

C22_Witness ==
    /\ last.kind = "render_line"
    /\ Len(last.oams) = 10
    /\ Cardinality(Matching(ppu.ly, 8)) = 12
    /\ 11 \in Selected /\ 12 \notin Selected

\* C25: Tile::pixel_buf(line) returns, for each pixel i = 0..7, the colour
\* bit(7 - i) of byte 2*line plus twice bit(7 - i) of byte 2*line + 1
C25_PixelBuf ==
    last.kind = "pixel_buf" =>
        \A i \in 0..7 :
            last.pixels[i + 1]
              = Bit(Get(mem.ram, 32768 + 16 * last.tile + 2 * last.line_idx), 7 - i)
                + 2 * Bit(Get(mem.ram, 32768 + 16 * last.tile + 2 * last.line_idx + 1), 7 - i)

-----------------------------------------------------------------------------
(* The STAT interrupt sources: PPU::run with every cycle count under every   *)
(* STAT enable bit, remembering the mode and the line each call started in   *)

\* LYC values: the first line, a visible line, the line on which the code
\* enters VBLANK, a VBLANK line
StatLycValues == {0, 5, 143, 150}

InitStat ==
    /\ cpu = Cpu_new
    /\ joypad = Joypad_new
    /\ mem = Mem_new
    /\ ppu \in { [PPU_new EXCEPT !.lcdc = 145, !.stat = s, !.lyc = y] :
                    s \in StatValues, y \in StatLycValues }
    /\ timer = Timer_new
    /\ intc = Intc_new
    /\ overflow_checks = TRUE
    /\ frame = Frame_new
    /\ panicked = FALSE
    /\ last = Last_new
    /\ prev = Last_new
    /\ cart = NoCart

\* one call of PPU::run
PpuRun(cycles) ==
    /\ frame.done < MaxFrames
    /\ \E r \in {PPU_run(ppu, cycles)} :
          /\ ppu' = r.ppu
          /\ frame' = FrameStep(frame, ppu, r.ppu, cycles, r.int)
          /\ last' = [ kind |-> "ppu_run", steps |-> 0, from_mode |-> ppu.mode,
                       from_ly |-> ppu.ly, int |-> r.int ]
    /\ UNCHANGED <<joypad, cpu, mem, timer, intc, cart, overflow_checks, panicked, prev>>

NextStat == \E cycles \in 1..MaxCycles : PpuRun(cycles)

SpecStat == InitStat /\ [][NextStat]_vars

\* the last call of PPU::run entered mode m
Entered(m) == last.kind = "ppu_run" /\ last.from_mode # m /\ ppu.mode = m

\* the last call of PPU::run changed LY to the value of LYC
LyBecameLyc == last.kind = "ppu_run" /\ last.from_ly # ppu.ly /\ ppu.ly = ppu.lyc

\* C26: PPU::run returns the LCD (STAT) source exactly when it enters HBLANK,
\* VBLANK or OAM-scan with STAT bit 3, 4 or 5 set, or changes LY to a value
\* equal to LYC (the wrap from 153 to 0 included) with STAT bit 6 set
C26_StatSources ==
    last.kind = "ppu_run" =>
        ((last.int = "LCD") <=>
            \/ Entered("HBLANK") /\ Bit(ppu.stat, 3) = 1
            \/ Entered("VBLANK") /\ Bit(ppu.stat, 4) = 1
            \/ Entered("OAMSCAN") /\ Bit(ppu.stat, 5) = 1
            \/ LyBecameLyc /\ Bit(ppu.stat, 6) = 1)

-----------------------------------------------------------------------------
(* The STAT register: reads and writes of FF41 between calls of PPU::run,    *)
(* from the first cycle of each mode on a few lines                          *)

\* the PPU at the first cycle of a mode: the three modes of the lines 0, 5
\* and 142, and VBLANK on the lines 143, 150 and 153
ModeStarts ==
    { [PPU_new EXCEPT !.lcdc = 145, !.ly = y, !.mode = md[1], !.r_cyc = md[2]] :
        y \in {0, 5, 142}, md \in { <<"OAMSCAN", 20>>, <<"DRAW", 43>>, <<"HBLANK", 51>> } }
    \cup { [PPU_new EXCEPT !.lcdc = 145, !.ly = y, !.mode = "VBLANK", !.r_cyc = 114] :
             y \in {143, 150, 153} }

\* bytes written to FF41: the enable bits, alone and together, and bytes with
\* the bits 0..2 and 7 set
StatWrites == StatValues \cup {7, 128, 135, 255}

\* the reads, writes and runs of one run
MaxStatOps == 3

InitStatReg ==
    /\ cpu = Cpu_new
    /\ joypad = Joypad_new
    /\ mem = Mem_new
    /\ ppu \in { [p EXCEPT !.lyc = y] : p \in ModeStarts, y \in StatLycValues }
    /\ timer = Timer_new
    /\ intc = Intc_new
    /\ overflow_checks = TRUE
    /\ frame = Frame_new
    /\ panicked = FALSE
    /\ last = Last_new
    /\ prev = Last_new
    /\ cart = NoCart

\* PPU::read(0xFF41)
StatRead ==
    /\ last.steps < MaxStatOps
    /\ last' = [ kind |-> "stat_read", steps |-> last.steps + 1,
                 val |-> PPU_read(ppu, 65345) ]
    /\ UNCHANGED <<joypad, cpu, mem, ppu, timer, intc, cart, overflow_checks, panicked, frame, prev>>

\* PPU::write(0xFF41, val), with what FF41 reads before and after it
StatWrite(val) ==
    /\ last.steps < MaxStatOps
    /\ ppu' = PPU_write(ppu, 65345, val)
    /\ last' = [ kind |-> "stat_write", steps |-> last.steps + 1, val |-> val,
                 before |-> PPU_read(ppu, 65345),
                 after |-> PPU_read(PPU_write(ppu, 65345, val), 65345) ]
    /\ UNCHANGED <<joypad, cpu, mem, timer, intc, cart, overflow_checks, panicked, frame, prev>>

\* PPU::run between the accesses
StatRun(cycles) ==
    /\ last.steps < MaxStatOps
    /\ ppu' = PPU_run(ppu, cycles).ppu
    /\ last' = [ kind |-> "ppu_run", steps |-> last.steps + 1, from_mode |-> ppu.mode,
                 from_ly |-> ppu.ly, int |-> PPU_run(ppu, cycles).int ]
    /\ UNCHANGED <<joypad, cpu, mem, timer, intc, cart, overflow_checks, panicked, frame, prev>>

NextStatReg ==
    \/ StatRead
    \/ \E val \in StatWrites : StatWrite(val)
    \/ \E cycles \in 1..MaxCycles : StatRun(cycles)

SpecStatReg == InitStatReg /\ [][NextStatReg]_vars

\* C27: a read of FF41 returns the number of the current mode in bits 0-1 and
\* the LY = LYC flag in bit 2, whatever was written to FF41; a write to FF41
\* leaves every bit of the value read back other than bits 3-6 as it was
C27_StatRead ==
    /\ last.kind = "stat_read" =>
          /\ last.val % 4 = PpuMode(ppu.mode)
          /\ Bit(last.val, 2) = (IF ppu.ly = ppu.lyc THEN 1 ELSE 0)
    /\ last.kind = "stat_write" =>
          \A b \in {0, 1, 2, 7} : Bit(last.after, b) = Bit(last.before, b)

-----------------------------------------------------------------------------
(* The scanline timeline, under SpecPpu: frame.cyc is the number of cycles   *)
(* the PPU has consumed since the frame started (LY = 0, OAM-scan)           *)

\* the mode of a visible scanline c cycles after it started: OAM-scan for 20
\* cycles, DRAW for 43, HBLANK for 51
ModeAt(c) == IF c < 20 THEN "OAMSCAN" ELSE IF c < 63 THEN "DRAW" ELSE "HBLANK"

\* C28: every visible scanline LY = 0..143 passes through OAM-scan (20 cycles),
\* DRAW (43) and HBLANK (51), in this order and once, so that it is rendered
\* once, at the end of its DRAW; VBLANK is entered only after the HBLANK of
\* line 143, 144 * 114 cycles into the frame, and lasts 10 scanline periods
\* (1140 cycles), until the frame ends at 17556
C28_Timeline ==
    IF frame.cyc < 144 * 114
    THEN ppu.ly = frame.cyc \div 114 /\ ppu.mode = ModeAt(frame.cyc % 114)
    ELSE ppu.mode = "VBLANK" /\ frame.cyc < 144 * 114 + 1140

-----------------------------------------------------------------------------
(* The timer behind the bus: StaticBus::run_cycles with every cycle count,   *)
(* from the timers of InitTimer, and the TIMER flag being cleared as a       *)
(* dispatch clears it                                                        *)

\* one call of StaticBus::run_cycles
TimerRunCycles(cycles) ==
    /\ timer.system_counter + cycles <= MaxTicks
    /\ \E r \in {run_cycles(ppu, timer, intc, cycles)} :
          /\ ppu' = r.ppu
          /\ timer' = r.timer
          /\ intc' = r.intc
          /\ last' = [ kind |-> "run_cycles", steps |-> 0, cycles |-> cycles,
                       pre |-> timer, pre_if |-> intc.int_f ]
    /\ UNCHANGED <<joypad, cpu, mem, cart, overflow_checks, panicked, frame, prev>>

\* InterruptController::interrupt_clear(TIMER)
TimerIfClear ==
    /\ Bit(intc.int_f, 2) = 1
    /\ intc' = interrupt_clear(intc, "TIMER")
    /\ last' = [ kind |-> "if_clear", steps |-> 0 ]
    /\ UNCHANGED <<joypad, cpu, mem, ppu, timer, cart, overflow_checks, panicked, frame, prev>>

NextTimerBus ==
    \/ \E cycles \in 1..MaxCycles : TimerRunCycles(cycles)
    \/ TimerIfClear

SpecTimerBus == InitTimer /\ [][NextTimerBus]_vars

\* the increments of TIMA the ticks of the last call made: one for each
\* multiple of the period the system counter reached
Increments ==
    IF Timer_enabled(last.pre)
    THEN timer.system_counter \div StatedPeriod(last.pre.tac)
         - last.pre.system_counter \div StatedPeriod(last.pre.tac)
    ELSE 0

\* one of these increments took TIMA past 0xFF
PastFF == last.pre.tima + Increments > 255

\* C29: a tick reports an interrupt exactly when it increments TIMA past 0xFF
\* and TIMA is then reloaded with TMA; run_cycles sets IF bit 2 in the calls
\* that hold such a tick and leaves it alone in the others
C29_TimerInterrupt ==
    last.kind = "run_cycles" =>
        /\ timer.system_counter = last.pre.system_counter + last.cycles
        /\ Bit(intc.int_f, 2) = (IF PastFF THEN 1 ELSE Bit(last.pre_if, 2))
        /\ timer.tima = IF PastFF THEN last.pre.tma + (last.pre.tima + Increments - 256)
                        ELSE last.pre.tima + Increments
        /\ \A b \in {0, 1, 3, 4} : Bit(intc.int_f, b) = Bit(last.pre_if, b)

\* a call of one cycle whose tick reloads TIMA with TMA = 200 and sets the flag
C29_Witness ==
    /\ last.kind = "run_cycles" /\ last.cycles = 1
    /\ last.pre.tima = 255 /\ last.pre.tma = 200 /\ timer.tima = 200
    /\ Bit(last.pre_if, 2) = 0 /\ Bit(intc.int_f, 2) = 1

-----------------------------------------------------------------------------
(* OAM DMA: a write of every byte to FF46, from a bus with bytes in every    *)
(* array and register that a source page can name                            *)

\* number of writes to FF46
MaxDma == 1

\* bytes at the first and the last offset copied (and one past it) of a page of
\* each array: switchable ROM written over, VRAM, ERAM, WRAM, banked WRAM, and
\* OAM itself, io, HRAM
DmaRam ==
    (16384 :> 17) @@ (16543 :> 18) @@ (32768 :> 1) @@ (32927 :> 2) @@ (40960 :> 3)
    @@ (49152 :> 4) @@ (49311 :> 5) @@ (49312 :> 6) @@ (53328 :> 7)
    @@ (65024 :> 8) @@ (65040 :> 10) @@ (65183 :> 9)
    @@ (65281 :> 11) @@ (65296 :> 12) @@ (65360 :> 13) @@ (65408 :> 14)
    @@ (65439 :> 15) @@ (65440 :> 16)

\* the loaded image: bytes in the fixed half and in a page of the switchable
\* half that was not written over
DmaRom == (0 :> 21) @@ (159 :> 22) @@ (16383 :> 23) @@ (20480 :> 24) @@ (32767 :> 25)

InitDma ==
    /\ cpu = Cpu_new
    /\ joypad = Joypad_new
    /\ mem = [Mem_new EXCEPT !.rom = DmaRom, !.ram = DmaRam]
    /\ ppu = [PPU_new EXCEPT !.lcdc = 145, !.stat = 72, !.scy = 31, !.scx = 32,
                             !.ly = 33, !.lyc = 33, !.bgp = 228, !.obp0 = 210,
                             !.obp1 = 27, !.wy = 34, !.wx = 35]
    /\ timer = [ tima |-> 41, tma |-> 42, tac |-> 5, system_counter |-> 11111 ]
    /\ intc = [ int_en |-> 21, int_f |-> 10 ]
    /\ cart = NoCart
    /\ overflow_checks \in BOOLEAN
    /\ panicked = FALSE
    /\ frame = Frame_new
    /\ last = Last_new
    /\ prev = Last_new

NextDma == \E val \in 0..255 : BusWrite(65350, val, MaxDma)

SpecDma == InitDma /\ [][NextDma]_vars

\* C30: a write of X to FF46 returns without a panic with OAM byte i holding
\* what the bus returned for X * 0x100 + i before the write, for each of the
\* 160 bytes, and with nothing but OAM changed
C30_Dma ==
    last.kind = "bus_write" /\ last.addr = 65350 =>
        /\ ~panicked
        /\ \A i \in 0..159 :
              Bus_read(M, 65024 + i) = Bus_read(last.pre, last.val * 256 + i)
        /\ \A a \in (DOMAIN mem.ram \cup DOMAIN last.pre.mem.ram) \ (65024..65183) :
              a \in DOMAIN mem.ram /\ a \in DOMAIN last.pre.mem.ram
              /\ mem.ram[a] = last.pre.mem.ram[a]
        /\ mem.rom = last.pre.mem.rom
        /\ mem.passed_buf = last.pre.mem.passed_buf
        /\ ppu = last.pre.ppu
        /\ timer = last.pre.timer
        /\ intc = last.pre.intc
        /\ cpu = last.pre.cpu

\* the write of 0xFF: the source page holds the registers, and OAM ends with
\* the timer's TIMA, IF, LCDC, 0xFF for FF46 itself, and the bytes of HRAM
C30_Witness ==
    /\ last.kind = "bus_write" /\ last.addr = 65350 /\ last.val = 255
    /\ ~panicked
    /\ Get(mem.ram, 65024) = 255 /\ Get(mem.ram, 65024 + 5) = 41
    /\ Get(mem.ram, 65024 + 15) = 10 /\ Get(mem.ram, 65024 + 64) = 145
    /\ Get(mem.ram, 65024 + 70) = 255 /\ Get(mem.ram, 65024 + 128) = 14
    /\ Get(mem.ram, 65183) = 15
    /\ Get(last.pre.mem.ram, 65024) = 8

-----------------------------------------------------------------------------
(* Cartridge RAM: the registers written and A000-BFFF written and read, for  *)
(* cartridges without MBC, with MBC1 and with MBC3                           *)

\* increments of the MBC3 clock by the latch register
MaxRtc == 2

\* no MBC with 32 and 64 KiB of ROM; MBC1 (type 3) and MBC3 (type 0x13) with 4
\* ROM banks and no RAM, 8 KiB and 32 KiB; MBC1 with 64 ROM banks and 8 KiB
RamHeaders ==
    { [cart_type |-> 0, rom_code |-> k, ram_code |-> 0] : k \in {0, 1} }
    \cup { [cart_type |-> ty, rom_code |-> 1, ram_code |-> r] :
              ty \in {3, 19}, r \in {0, 2, 3} }
    \cup { [cart_type |-> 3, rom_code |-> 5, ram_code |-> 2] }

\* the bytes written to 0000-1FFF: low nibble 0xA or not
EnableValues == {10, 11, 26, 160}

\* the bytes written to 2000-3FFF
RomBankValues == {0, 3}

\* the bytes written to 4000-5FFF: RAM banks and, for MBC3, the clock
SelectValues == {0, 1, 3, 8}

\* the bytes written to 6000-7FFF: the banking mode, or the MBC3 latch
ModeValues == {0, 1}

\* the first and the last address of A000-BFFF
RamAddrs == {40960, 49151}

InitCartRam ==
    /\ cpu = Cpu_new
    /\ joypad = Joypad_new
    /\ mem = Mem_new
    /\ ppu = PPU_new
    /\ timer = Timer_new
    /\ intc = Intc_new
    /\ cart \in { Cart_new(h) : h \in RamHeaders }
    /\ overflow_checks = TRUE
    /\ panicked = FALSE
    /\ frame = Frame_new
    /\ last = [ kind |-> "init" ]
    /\ prev = [ enable |-> -1 ]

\* Cartridge::write to a register; prev keeps the last byte written to 0000-1FFF
CartRegWrite(addr, val) ==
    /\ ~panicked
    /\ cart.rtc < MaxRtc
    /\ cart' = Cart_write(cart, addr, val)
    /\ last' = [ kind |-> "cart_write", addr |-> addr, val |-> val,
                 pre_en |-> cart.ram_en, pre_ram |-> cart.ram ]
    /\ prev' = IF addr <= 8191 THEN [ enable |-> val ] ELSE prev
    /\ UNCHANGED <<joypad, cpu, mem, ppu, timer, intc, overflow_checks, panicked, frame>>

\* Cartridge::write to A000-BFFF
CartRamWrite(addr, val) ==
    /\ ~panicked
    /\ \E r \in {Cart_write_ram(cart, addr, val)} :
          /\ panicked' = r.panic
          /\ cart' = r.cart
    /\ last' = [ kind |-> "cart_write", addr |-> addr, val |-> val,
                 pre_en |-> cart.ram_en, pre_ram |-> cart.ram ]
    /\ UNCHANGED <<joypad, cpu, mem, ppu, timer, intc, overflow_checks, frame, prev>>

\* Cartridge::read of A000-BFFF
CartRamRead(addr) ==
    /\ ~panicked
    /\ \E r \in {Cart_read_ram(cart, addr)} :
          /\ panicked' = r.panic
          /\ last' = [ kind |-> "cart_read", addr |-> addr, val |-> r.val ]
    /\ UNCHANGED <<joypad, cpu, mem, ppu, timer, intc, cart, overflow_checks, frame, prev>>

\* Cartridge::read of 0000-7FFF
CartRomRead(addr) ==
    /\ ~panicked
    /\ \E r \in {Cart_read(cart, addr)} :
          /\ panicked' = r.panic
          /\ last' = [ kind |-> "cart_read", addr |-> addr, val |-> r.val ]
    /\ UNCHANGED <<joypad, cpu, mem, ppu, timer, intc, cart, overflow_checks, frame, prev>>

NextCartRam ==
    \/ \E val \in EnableValues : CartRegWrite(0, val)
    \/ \E val \in RomBankValues : CartRegWrite(8192, val)
    \/ \E val \in SelectValues : CartRegWrite(16384, val)
    \/ \E val \in ModeValues : CartRegWrite(24576, val)
    \/ \E addr \in RamAddrs, val \in {0, 85} : CartRamWrite(addr, val)
    \/ \E addr \in RamAddrs : CartRamRead(addr)
    \/ \E addr \in {0, 335, 32767} : CartRomRead(addr)

SpecCartRam == InitCartRam /\ [][NextCartRam]_vars

\* C31: an MBC1 cartridge has its RAM enabled exactly when the last byte
\* written to 0000-1FFF had the low nibble 0xA, and never before such a write;
\* with RAM disabled a read of A000-BFFF returns 0xFF and a write to A000-BFFF
\* leaves the RAM as it was
C31_RamEnable ==
    cart.mbc = "MBC1" =>
        /\ cart.ram_en = (prev.enable # -1 /\ prev.enable % 16 = 10)
        /\ (last.kind = "cart_read" /\ last.addr >= 40960 /\ ~cart.ram_en)
              => last.val = 255 /\ ~panicked
        /\ (last.kind = "cart_write" /\ last.addr >= 40960 /\ ~last.pre_en)
              => cart.ram = last.pre_ram /\ ~panicked

\* an MBC1 cartridge with a byte in its RAM, disabled again by a write of 0x0B:
\* the read of A000 returned 0xFF
C31_Witness ==
    /\ cart.mbc = "MBC1" /\ prev.enable = 11 /\ ~cart.ram_en
    /\ Get(cart.ram, 0) = 85
    /\ last.kind = "cart_read" /\ last.addr = 40960 /\ last.val = 255

\* C32: a cartridge of type 0 is left as it was constructed by every write to
\* 0000-7FFF and to A000-BFFF, a read of 0000-7FFF returns the byte of the
\* image at that address, and a read of A000-BFFF returns 0xFF without a panic
C32_NoMbc ==
    cart.mbc = "MBC0" =>
        /\ cart = Cart_new(cart.hdr)
        /\ (last.kind = "cart_read" /\ last.addr <= 32767)
              => ~panicked /\ last.val = RomAt(cart.hdr, last.addr)
        /\ (last.kind = "cart_read" /\ last.addr >= 40960)
              => ~panicked /\ last.val = 255

\* C40: with RAM enabled, no read and no write of A000-BFFF of an MBC1 or MBC3
\* cartridge panics, whatever the RAM size of the header, the secondary bank
\* and the banking mode
C40_RamInBounds ==
    (cart.mbc \in {"MBC1", "MBC3"} /\ last.kind \in {"cart_read", "cart_write"}
        /\ last.addr >= 40960)
    => ~panicked

-----------------------------------------------------------------------------
(* MBC5.  The source tree holds the module `cart` twice, as src/src/cart.rs  *)
(* and as src/src/cart/mod.rs with mbc1.rs and mbc5.rs beside it; a build    *)
(* has one of the two, and cart.tree says which.                             *)

\* the log2 of a bank count (u16::ilog2)
RECURSIVE ilog2(_)
ilog2(n) == IF n <= 1 THEN 0 ELSE 1 + ilog2(n \div 2)

\* Cartridge::new of cart/mod.rs: `0x19..0x1E` is the range without its end
mod_Cart_new(hdr) ==
    [ Cart_new(hdr) EXCEPT
        !.mbc = CASE get_cart_header(hdr).cart_type = 0 -> "MBC0"
                  [] get_cart_header(hdr).cart_type \in 1..3 -> "MBC1"
                  [] get_cart_header(hdr).cart_type = 19 -> "MBC5"
                  [] get_cart_header(hdr).cart_type \in 25..29 -> "MBC5"
                  [] OTHER -> "unimplemented" ]

\* Cartridge::new of the tree built
tree_Cart_new(tree, hdr) == IF tree = "cart.rs" THEN Cart_new(hdr) ELSE mod_Cart_new(hdr)

\* `(1 << max_banks.ilog2()) - 1` in u8: a shift by 8 or more is an overflow,
\* which panics with overflow checks and shifts by the amount modulo 8 without
bank_mask(banks) == 2 ^ (ilog2(banks) % 8) - 1

\* MBC5::write, which is MBC1::write of cart/mbc1.rs, addr in 0000-7FFF
MBC5_write(c, addr, val, checks) ==
    IF addr <= 8191 THEN [ cart |-> [c EXCEPT !.ram_en = (val % 16 = 10)], panic |-> FALSE ]
    ELSE IF addr <= 16383
         THEN IF checks /\ ilog2(get_cart_header(c.hdr).num_rom_banks) >= 8
              THEN [ cart |-> c, panic |-> TRUE ]
              ELSE [ cart |-> [c EXCEPT !.rom_bank_num =
                                  BitAnd(IF val % 32 = 0 THEN 1 ELSE val % 32,
                                         bank_mask(get_cart_header(c.hdr).num_rom_banks))],
                     panic |-> FALSE ]
    ELSE IF addr <= 24575
         THEN [ cart |-> IF get_cart_header(c.hdr).num_rom_banks >= 64
                            \/ get_cart_header(c.hdr).ram_size >= 32767
                         THEN [c EXCEPT !.two_bit_reg = val % 4]
                         ELSE c,
                panic |-> FALSE ]
    ELSE [ cart |-> [c EXCEPT !.bank_mode_sel = (val % 2 = 1)], panic |-> FALSE ]

\* MBC5::read, which is MBC1::read of cart/mbc1.rs, addr in 0000-7FFF: the arms
\* are those of the MBC1 of cart.rs
MBC5_read(c, addr) == Cart_read([c EXCEPT !.mbc = "MBC1"], addr)

\* the type bytes 0x19..0x1E, with 4, 128 and 512 ROM banks
Mbc5Headers ==
    { [cart_type |-> ty, rom_code |-> k, ram_code |-> 0] : ty \in 25..30, k \in {1, 6, 8} }

\* the bytes written to 2000-2FFF and to 3000-3FFF
Mbc5Values == {0, 1, 2, 3, 31, 32, 33, 127, 255}

\* Cartridge::new; prev keeps the last bytes written to 2000-2FFF and 3000-3FFF
InitMbc5 ==
    /\ cpu = Cpu_new
    /\ joypad = Joypad_new
    /\ mem = Mem_new
    /\ ppu = PPU_new
    /\ timer = Timer_new
    /\ intc = Intc_new
    /\ \E tree \in {"cart.rs", "cart/mod.rs"}, h \in Mbc5Headers :
          /\ cart = tree_Cart_new(tree, h)
          /\ panicked = (tree_Cart_new(tree, h).mbc = "unimplemented")
    /\ overflow_checks \in BOOLEAN
    /\ frame = Frame_new
    /\ last = [ kind |-> "new" ]
    /\ prev = [ low |-> -1, high |-> -1 ]

\* Cartridge::write of cart/mod.rs for MBC5
Mbc5Write(addr, val) ==
    /\ ~panicked
    /\ \E r \in {MBC5_write(cart, addr, val, overflow_checks)} :
          /\ panicked' = r.panic
          /\ cart' = r.cart
    /\ last' = [ kind |-> "cart_write", addr |-> addr, val |-> val ]
    /\ prev' = IF addr \in 8192..12287 THEN [prev EXCEPT !.low = val]
               ELSE IF addr \in 12288..16383 THEN [prev EXCEPT !.high = val]
               ELSE prev
    /\ UNCHANGED <<joypad, cpu, mem, ppu, timer, intc, overflow_checks, frame>>

\* Cartridge::read of cart/mod.rs for MBC5
Mbc5Read(addr) ==
    /\ ~panicked
    /\ \E r \in {MBC5_read(cart, addr)} :
          /\ panicked' = r.panic
          /\ last' = [ kind |-> "cart_read", addr |-> addr, val |-> r.val, off |-> r.off ]
    /\ UNCHANGED <<joypad, cpu, mem, ppu, timer, intc, cart, overflow_checks, frame, prev>>

NextMbc5 ==
    \/ \E addr \in {8192, 12288}, val \in Mbc5Values : Mbc5Write(addr, val)
    \/ \E addr \in {16384, 32767} : Mbc5Read(addr)

SpecMbc5 == InitMbc5 /\ [][NextMbc5]_vars

\* the 9-bit bank number the two registers hold
StatedBank9 == (prev.high % 2) * 256 + prev.low

\* C33: a cartridge with a type byte in 0x19..0x1E is constructed, as MBC5;
\* once 2000-2FFF and 3000-3FFF were written, a read of 4000-7FFF returns the
\* byte of the bank whose 9-bit number has the byte written to 2000-2FFF as
\* its low 8 bits and bit 0 of the byte written to 3000-3FFF as bit 8, bank 0
\* for the number 0
C33_Mbc5 ==
    /\ last.kind = "new" => ~panicked /\ cart.mbc = "MBC5"
    /\ (last.kind = "cart_write" /\ last.addr \in 8192..16383) => ~panicked
    /\ (last.kind = "cart_read" /\ prev.low # -1 /\ prev.high # -1
           /\ StatedBank9 < get_cart_header(cart.hdr).num_rom_banks)
       => ~panicked /\ last.off = StatedBank9 * 16384 + (last.addr - 16384)

-----------------------------------------------------------------------------
(* Joypad: src/src/joypad.rs, driven directly by input edges, writes of the  *)
(* selector and reads of the register (addr = 0xFF00)                        *)

JoypadInputs == {"START", "SELECT", "B", "A", "DOWN", "UP", "LEFT", "RIGHT"}

\* JoypadInput::to_reg
to_reg(button) ==
    CASE button \in {"START", "DOWN"} -> 8
      [] button \in {"SELECT", "UP"} -> 4
      [] button \in {"B", "LEFT"} -> 2
      [] button \in {"A", "RIGHT"} -> 1

\* JoypadInput::is_button
is_button(button) == button \in {"START", "SELECT", "A", "B"}

\* Joypad::select_dpad
select_dpad(j) == BitAnd(j.reg, 16) = 0

\* Joypad::select_buttons
select_buttons(j) == BitAnd(j.reg, 32) = 0

\* Joypad::write
Joypad_write(j, val) == [j EXCEPT !.reg = BitAnd(val, 48)]

\* Joypad::read
Joypad_read(j) ==
    IF select_buttons(j)
    THEN IF select_dpad(j) THEN BitOr(BitAnd(j.dpad_state, j.button_state), j.reg)
         ELSE BitOr(j.button_state, j.reg)
    ELSE IF select_dpad(j) THEN BitOr(j.dpad_state, j.reg)
         ELSE 63

\* Joypad::input with the inputs active high: a press sets the button's bit
Mut_Joypad_input(j, button, direction) ==
    IF is_button(button)
    THEN [j EXCEPT !.button_state = IF direction = "PRESS" THEN BitOr(@, to_reg(button))
                                    ELSE BitClear(@, to_reg(button))]
    ELSE [j EXCEPT !.dpad_state = IF direction = "PRESS" THEN BitOr(@, to_reg(button))
                                  ELSE BitClear(@, to_reg(button))]

\* Joypad::input
Joypad_input(j, button, direction) ==
    IF is_button(button)
    THEN [j EXCEPT !.button_state = IF direction = "PRESS" THEN BitClear(@, to_reg(button))
                                    ELSE BitOr(@, to_reg(button))]
    ELSE [j EXCEPT !.dpad_state = IF direction = "PRESS" THEN BitClear(@, to_reg(button))
                                  ELSE BitOr(@, to_reg(button))]

\* JoypadState::is_pressed of Joypad::get_state
is_pressed(j, button) ==
    BitAnd(IF is_button(button) THEN j.button_state ELSE j.dpad_state, to_reg(button)) = 0

\* the bytes written to FF00: each selection, with and without other bits
SelectorValues == {0, 16, 32, 48, 207, 239, 223, 255}

\* Joypad::new; prev keeps the inputs whose last edge was a press
InitJoypad ==
    /\ cpu = Cpu_new
    /\ joypad = Joypad_new
    /\ mem = Mem_new
    /\ ppu = PPU_new
    /\ timer = Timer_new
    /\ intc = Intc_new
    /\ cart = NoCart
    /\ overflow_checks = TRUE
    /\ panicked = FALSE
    /\ frame = Frame_new
    /\ last = [ kind |-> "new" ]
    /\ prev = [ pressed |-> {} ]

JoypadInput(button, direction) ==
    /\ joypad' = Joypad_input(joypad, button, direction)
    /\ last' = [ kind |-> "input", button |-> button, pre |-> joypad ]
    /\ prev' = [ pressed |-> IF direction = "PRESS" THEN prev.pressed \cup {button}
                             ELSE prev.pressed \ {button} ]
    /\ UNCHANGED <<cpu, mem, ppu, timer, intc, cart, overflow_checks, panicked, frame>>

JoypadWrite(val) ==
    /\ joypad' = Joypad_write(joypad, val)
    /\ last' = [ kind |-> "write", val |-> val ]
    /\ UNCHANGED <<cpu, mem, ppu, timer, intc, cart, overflow_checks, panicked, frame, prev>>

JoypadRead ==
    /\ last' = [ kind |-> "read", val |-> Joypad_read(joypad) ]
    /\ UNCHANGED <<joypad, cpu, mem, ppu, timer, intc, cart, overflow_checks, panicked, frame, prev>>

NextJoypad ==
    \/ \E button \in JoypadInputs, direction \in {"PRESS", "RELEASE"} :
          JoypadInput(button, direction)
    \/ \E val \in SelectorValues : JoypadWrite(val)
    \/ JoypadRead

SpecJoypad == InitJoypad /\ [][NextJoypad]_vars

\* the bit of the low nibble an input is read at: RIGHT and A at bit 0, LEFT
\* and B at bit 1, UP and SELECT at bit 2, DOWN and START at bit 3
StatedBit(button) ==
    CASE button \in {"RIGHT", "A"} -> 0
      [] button \in {"LEFT", "B"} -> 1
      [] button \in {"UP", "SELECT"} -> 2
      [] button \in {"DOWN", "START"} -> 3

Directions == {"DOWN", "UP", "LEFT", "RIGHT"}

\* what a read returns with the selector bits set to sel
ReadAs(j, sel) == Joypad_read([j EXCEPT !.reg = sel])

\* C37: a read with only the d-pad selected (bit 4 = 0, bit 5 = 1) has a 0 in
\* bits 0-3 exactly for the directions whose last edge was a press, and a read
\* with only the buttons selected (bit 5 = 0, bit 4 = 1) exactly for the buttons
\* whose last edge was a press; an edge on an input of one group leaves what
\* is read of the other group as it was; is_pressed(b) holds exactly when the
\* last edge of b was a press
C37_Joypad ==
    /\ (last.kind = "read" /\ joypad.reg = 32)
          => \A b \in Directions : (Bit(last.val, StatedBit(b)) = 0) <=> (b \in prev.pressed)
    /\ (last.kind = "read" /\ joypad.reg = 16)
          => \A b \in JoypadInputs \ Directions :
                (Bit(last.val, StatedBit(b)) = 0) <=> (b \in prev.pressed)
    /\ last.kind = "input"
          => IF last.button \in Directions
             THEN ReadAs(joypad, 16) = ReadAs(last.pre, 16)
             ELSE ReadAs(joypad, 32) = ReadAs(last.pre, 32)
    /\ \A b \in JoypadInputs : is_pressed(joypad, b) <=> (b \in prev.pressed)

\* UP and A are held, A after a release of B; the d-pad is selected and the
\* read returned 0x2B: bit 2 is 0, the other directions are 1
C37_Witness ==
    /\ prev.pressed = {"UP", "A"}
    /\ joypad.reg = 32
    /\ last.kind = "read" /\ last.val = 43

-----------------------------------------------------------------------------
(* Transparency and the LCD-enable bit, under SpecSprite *)

\* the line after the first k sprites of the last render were drawn
LineAfter(k) ==
    draw_sprites([ d \in 1..160 |-> 0 ], mem, ppu, SubSeq(last.oams, 1, k))

\* sprite i is on the screen and has colour index 0 on screen column d - 1
ZeroAt(i, d) ==
    LET x == OamEntry(mem, i).x_pos
    IN  x # 0 /\ x < 168 /\ d - x + 8 \in 1..8 /\ RowOf(i)[d - x + 8] = 0

\* C34: a pixel of a sprite with the colour index 0 leaves the pixel of the
\* line under it as it was before the sprite was drawn, whatever the flags of
\* the sprite and the palettes
C34_Transparent ==
    last.kind = "render_line" =>
        \A k \in 1..Len(last.oams) :
            LET before == LineAfter(k - 1)
                after == LineAfter(k)
            IN  \A d \in 1..160 : ZeroAt(last.oams[k], d) => after[d] = before[d]

\* C35: a line rendered with LCDC bit 7 clear has the colour 0 in every pixel
C35_LcdOff ==
    (last.kind = "render_line" /\ Bit(ppu.lcdc, 7) = 0)
    => \A d \in 1..160 : last.line[d] = 0

-----------------------------------------------------------------------------
(* The order of the PPU modes, under SpecPpu *)

\* the mode changes of PPU::run
ModeEdges ==
    { <<"OAMSCAN", "DRAW">>, <<"DRAW", "HBLANK">>, <<"HBLANK", "OAMSCAN">>,
      <<"HBLANK", "VBLANK">>, <<"VBLANK", "OAMSCAN">> }

\* C38: the PPU mode changes only along OAM-scan -> DRAW -> H-BLANK ->
\* (OAM-scan or V-BLANK) and V-BLANK -> OAM-scan, and with calls of at most
\* MaxCycles cycles the remaining-cycles counter is at least 1 after every
\* PPU::run call, so that one call never crosses two mode boundaries.
C38_ModeOrder ==
    /\ [](ppu.r_cyc >= 1)
    /\ [][ppu'.mode # ppu.mode => <<ppu.mode, ppu'.mode>> \in ModeEdges]_vars
    /\ [][ppu'.mode = ppu.mode => \/ ppu'.r_cyc < ppu.r_cyc
                                  \/ ppu' = ppu
                                  \/ ppu.mode = "VBLANK" /\ ppu'.ly = ppu.ly + 1]_vars

\* OAM scan of a new frame entered from V-BLANK by a call that overran the
\* boundary by MaxCycles - 1 cycles
C38_Witness ==
    /\ ppu.mode = "OAMSCAN" /\ ppu.ly = 0 /\ frame.done > 0
    /\ ppu.r_cyc = 20 - (MaxCycles - 1)

-----------------------------------------------------------------------------
(* The window line counter: PPU::run through a frame with writes to LCDC, WX
   and WY on its first lines and during its last line *)

\* writes are made while LY is below MaxWriteLine, and on line 153
MaxWriteLine == 3

\* LCDC with the window off (0x91) and on (0xB1)
WinLcdcValues == {145, 177}
\* WX: the window shifted off the left edge, at the left edge, on the last
\* column, off the screen
WxValues == {3, 7, 166, 167}
\* WY: the first line, a line written to mid-frame, a line that is never drawn
WyValues == {0, 2, 150}

\* the screen columns (0-based) that render_line copies window pixels to
WindowSpan(p) ==
    IF Bit(p.lcdc, 5) = 1 /\ p.window_triggered
    THEN IF p.wx < 8 THEN 0..159
         ELSE IF p.wx > 166 THEN {}
         ELSE (p.wx - 7)..159
    ELSE {}

InitWindow ==
    /\ cpu = Cpu_new
    /\ joypad = Joypad_new
    /\ mem = Mem_new
    /\ ppu \in { [PPU_new EXCEPT !.lcdc = l, !.wx = x, !.wy = y] :
                    l \in WinLcdcValues, x \in WxValues, y \in WyValues }
    /\ timer = Timer_new
    /\ intc = Intc_new
    /\ overflow_checks = TRUE
    /\ frame = Frame_new
    /\ panicked = FALSE
    /\ last = [ kind |-> "new", frames |-> 0, lines |-> 0, drawn |-> 0 ]
    /\ prev = Last_new
    /\ cart = NoCart

\* PPU::run(MaxCycles); `last` counts the frames begun, the lines drawn in this
\* frame and those of them that received window pixels
WinRun ==
    LET r == PPU_run(ppu, MaxCycles)
        line == ppu.mode = "DRAW" /\ r.ppu.mode = "HBLANK"
        wrap == ppu.mode = "VBLANK" /\ r.ppu.mode = "OAMSCAN"
    IN  /\ last.frames = 0 \/ ppu.ly < MaxWriteLine
        /\ ppu' = r.ppu
        /\ last' = [ kind |-> "run",
                     frames |-> IF wrap THEN last.frames + 1 ELSE last.frames,
                     lines |-> IF wrap THEN 0 ELSE IF line THEN last.lines + 1 ELSE last.lines,
                     drawn |-> IF wrap THEN 0
                               ELSE IF line /\ WindowSpan(r.ppu) # {} THEN last.drawn + 1
                               ELSE last.drawn ]
        /\ UNCHANGED <<joypad, cpu, mem, timer, intc, cart, overflow_checks, panicked, frame, prev>>

\* PPU::write to LCDC (FF40), WY (FF4A) or WX (FF4B)
WinWrite(addr, val) ==
    /\ ppu.ly < MaxWriteLine \/ ppu.ly = 153
    /\ ppu' = PPU_write(ppu, addr, val)
    /\ ppu' # ppu
    /\ last' = [last EXCEPT !.kind = "write"]
    /\ UNCHANGED <<joypad, cpu, mem, timer, intc, cart, overflow_checks, panicked, frame, prev>>

NextWindow ==
    \/ WinRun
    \/ \E val \in WinLcdcValues : WinWrite(65344, val)
    \/ \E val \in WyValues : WinWrite(65354, val)
    \/ \E val \in WxValues : WinWrite(65355, val)

SpecWindow == InitWindow /\ [][NextWindow]_vars

\* C36: the window line counter and the window-triggered latch are reset at the
\* start of every frame, and within a frame the counter is the number of lines
\* drawn so far that received window pixels: it does not advance on a line
\* drawn with the window disabled, not yet triggered or at WX > 166, whatever
\* writes are made to LCDC, WX and WY.
C36_WindowCounter ==
    /\ ppu.window_counter = last.drawn
    /\ (last.lines = 0 => ppu.window_counter = 0 /\ ~ppu.window_triggered)
    /\ ppu.window_counter <= last.lines

\* line MaxWriteLine - 1 of the second frame drawn with the window on the
\* screen, after at least one line of that frame was drawn without it
C36_Witness ==
    /\ last.frames = 1 /\ last.lines = MaxWriteLine
    /\ ppu.window_counter \in 1..(last.lines - 1)
    /\ WindowSpan(ppu) # {}

-----------------------------------------------------------------------------
(* The halted CPU waiting for VBLANK: Cpu::run_one called again and again *)

\* the machine cycles of a frame (cycles_per_frame of the front end)
FrameCycles == 17556

\* the frames a halted CPU is stepped through
MaxHaltFrames == 2

\* IE with the VBLANK bit: VBLANK alone, VBLANK and LCD
HaltIeValues == {1, 3}
\* STAT: no source enabled, the LYC source enabled
HaltStatValues == {0, 64}
\* LYC: the first line, the line on which VBLANK is entered
HaltLycValues == {0, 143}

\* LD A,ie; LDH (FF),A; LD A,stat; LDH (41),A; LD A,lyc; LDH (45),A; EI or NOP;
\* HALT
HaltProgram(ie, stat, lyc, en) ==
    <<62, ie, 224, 255, 62, stat, 224, 65, 62, lyc, 224, 69, en, 118>>

HaltPrograms ==
    { HaltProgram(ie, stat, lyc, en) :
        ie \in HaltIeValues, stat \in HaltStatValues, lyc \in HaltLycValues, en \in {251, 0} }

\* the machine after n calls of Cpu::run_one
RECURSIVE RunN(_, _)
RunN(s, n) == IF n = 0 THEN s ELSE RunN(run_one(s).s, n - 1)

\* the machine on which a HaltProgram has run from Cpu::new to its HALT, in 8
\* calls of Cpu::run_one
Halted ==
    { RunN(Machine(Cpu_new, [Mem_new EXCEPT !.rom = Image(code)], PPU_new, Timer_new,
                   Intc_new, TRUE), 8) : code \in HaltPrograms }

InitHalt ==
    /\ \E s \in Halted :
          /\ cpu = s.cpu
          /\ mem = s.mem
          /\ ppu = s.ppu
          /\ timer = s.timer
          /\ intc = s.intc
    /\ joypad = Joypad_new
    /\ overflow_checks = TRUE
    /\ panicked = FALSE
    /\ frame = Frame_new
    /\ last = [ kind |-> "new", elapsed |-> 0 ]
    /\ prev = Last_new
    /\ cart = NoCart

\* one call of Cpu::run_one, until the CPU has left the halted state or has
\* been halted for MaxHaltFrames frames; `last.elapsed` is the number of cycles
\* spent halted
HaltRunOne ==
    /\ ~panicked
    /\ last.kind # "halt_wake"
    /\ last.elapsed < MaxHaltFrames * FrameCycles
    /\ \E r \in {run_one(M)} :
          /\ panicked' = r.s.panic
          /\ cpu' = r.s.cpu
          /\ mem' = r.s.mem
          /\ ppu' = r.s.ppu
          /\ timer' = r.s.timer
          /\ intc' = r.s.intc
          /\ last' = [ kind |-> r.kind,
                       elapsed |-> IF r.kind = "halt_idle" THEN last.elapsed + r.cycles
                                   ELSE last.elapsed ]
          /\ UNCHANGED <<joypad, cart, overflow_checks, frame, prev>>

NextHalt == HaltRunOne

SpecHalt == InitHalt /\ [][NextHalt]_vars

\* C39: a CPU halted with the VBLANK bit set in IE leaves the halted state
\* within one frame (FrameCycles machine cycles) of stepping, for every fixed
\* IE, STAT and LYC: it is never found halted after FrameCycles cycles of halt.
C39_HaltWakes == (cpu.sleep /\ Bit(intc.int_en, 0) = 1) => last.elapsed < FrameCycles

====
